---- MODULE Spec2Model ----
(***************************************************************************)
(* Ownership and element-access model of the rust-GSL container and eigen  *)
(* workspace wrappers (src/src/types.rs,                                   *)
(* src/src/types/eigen_symmetric_workspace.rs).                            *)
(*                                                                         *)
(* The native library is modelled as a heap of objects addressed by        *)
(* pointers; every wrapper method is an operator that threads the heap     *)
(* through the native calls the method makes and yields the heap, the      *)
(* returned value and the list of native calls made.                       *)
(***************************************************************************)
EXTENDS Integers, Sequences, FiniteSets, TLC

\* ---------------------------------------------------------------- bounds
MaxDim == 1       \* dimensions passed to constructors range over 0..MaxDim
MaxVal == 1       \* element components range over 0..MaxVal
MaxAllocs == 2    \* native allocations the allocator can satisfy
MaxOps == 2       \* operations performed in one element scenario
MaxCode == 17      \* native status codes range over -1..MaxCode

\* ------------------------------------------------------ program constants
NULL == 0
GSL_SUCCESS == 0
GSL_EINVAL == 4
GSL_EDOM == 1
GSL_ERANGE == 2
GSL_ENOMEM == 8
GSL_EMAXITER == 11
GSL_EUNDRFLW == 15
GSL_EOVRFLW == 16

Ptr == 1..MaxAllocs
Slots == 1..MaxAllocs
Dims == 0..MaxDim
Vals == 0..MaxVal

\* the four element precisions of the container family
ElemTypes == {"F32", "F64", "CF64", "CF32"}
IsComplex(e) == e \in {"CF64", "CF32"}
\* an element is a pair <<re, im>>; real precisions keep im = 0
Zero == <<0, 0>>
ElemVals(e) == IF IsComplex(e) THEN {<<v, MaxVal - v>> : v \in Vals}
               ELSE {<<v, 0>> : v \in Vals}
\* content of memory that was allocated but never written
Uninit == <<-1, -1>>
\* the eigen workspace families
WsTypes == {"symm", "gensymm"}

VARIABLES
  heap,       \* native heap: pointer -> native object
  handles,    \* handle values in scope: slot -> handle or NoHandle
  freeCount,  \* pointer -> number of times the native free received it
  raw,        \* the raw pointer the caller last obtained through get_ffi
  call,       \* the operation performed last
  ret,        \* the value it returned
  calls,      \* the native calls it made, in order
  prec,       \* element precision of the containers of this run
  handler,    \* process-wide native error handler: "abort" or "off"
  crashed,    \* the error handler aborted the process
  ub,         \* a native function received a pointer to no live object
  nops,       \* operations performed so far (counted in the element scenarios)
  prev,       \* the operation before the last one (recorded in the element scenarios)
  clonedFrom  \* slot -> the slot whose handle this one was cloned from, or 0

vars == <<heap, handles, freeCount, raw, call, ret, calls, prec, handler, crashed, ub,
          nops, prev, clonedFrom>>

\* ------------------------------------------------------------ native heap
NoObj == [st |-> "unalloc", kind |-> "none", elem |-> "none",
          size1 |-> 0, size2 |-> 0, data |-> <<>>]

\* a released object: only what it was is remembered
FreedObj(k) == [st |-> "freed", kind |-> k, elem |-> "none",
                size1 |-> 0, size2 |-> 0, data |-> <<>>]

Obj(k, e, n1, n2, d) == [st |-> "live", kind |-> k, elem |-> e,
                         size1 |-> n1, size2 |-> n2, data |-> d]

Live(H, p) == p \in DOMAIN H /\ H[p].st = "live"

Fill(n, v) == [i \in 1..n |-> v]

SetMin(S) == CHOOSE x \in S : \A y \in S : x <= y

FreshPtrs(H) == {p \in DOMAIN H : H[p].st = "unalloc"}

\* what a native allocator can return: null, or the next unused address
AllocOutcomes(H) ==
  {NULL} \cup (IF FreshPtrs(H) = {} THEN {} ELSE {SetMin(FreshPtrs(H))})

\* one native call: function, arguments, what it returned (a pointer, a
\* status, an element; 0 for a function returning nothing), and whether it
\* invoked the error handler
NCall(f, a, r, e) == [fn |-> f, args |-> a, res |-> r, err |-> e]

\* result of a wrapper method: heap, returned value, native calls made,
\* and whether a native function was handed a pointer to no live object
Res(H, r, cs, u) == [h |-> H, ret |-> r, calls |-> cs, ub |-> u]

\* ---------------------------------------------------------- return values
None == [tag |-> "None"]
Some(hd, st) == [tag |-> "Some", hd |-> hd, status |-> st]
\* an i32 status code, returned as the native function gave it
Status(s) == [tag |-> "Status", val |-> s]
\* a member of the status enumeration (crate::Value)
Typed(k) == [tag |-> "Value", kind |-> k]
Elem(v) == [tag |-> "Elem", val |-> v]
Unit == [tag |-> "Unit"]
Ptrv(p) == [tag |-> "Ptr", val |-> p]
Aborted == [tag |-> "Aborted"]
\* status slot of a Some(handle) that carries no status
NoStatus == -1

NoHandle == [kind |-> "none", elem |-> "none", ptr |-> NULL]
Handle(k, e, p) == [kind |-> k, elem |-> e, ptr |-> p]

LiveSlots == {s \in DOMAIN handles : handles[s] # NoHandle}
FreeSlots == {s \in DOMAIN handles : handles[s] = NoHandle}
VecSlots == {s \in LiveSlots : handles[s].kind = "vec"}
MatSlots == {s \in LiveSlots : handles[s].kind = "mat"}
\* the caller binds a returned handle to the first unused variable
DestSlot == IF FreeSlots = {} THEN 0 ELSE SetMin(FreeSlots)

\* ------------------------------------------------------- native allocators
\* gsl_vector_calloc(n): a zero-filled vector of length n, or null
gsl_vector_calloc(H, e, n, p) ==
  IF p = NULL THEN H
  ELSE [H EXCEPT ![p] = Obj("vec", e, n, 1, Fill(n, Zero))]

\* gsl_vector_alloc(n): a vector of length n with unwritten elements, or null
gsl_vector_alloc(H, e, n, p) ==
  IF p = NULL THEN H
  ELSE [H EXCEPT ![p] = Obj("vec", e, n, 1, Fill(n, Uninit))]

\* gsl_matrix_calloc(n1, n2): a zero-filled n1 x n2 matrix (row-major), or null
gsl_matrix_calloc(H, e, n1, n2, p) ==
  IF p = NULL THEN H
  ELSE [H EXCEPT ![p] = Obj("mat", e, n1, n2, Fill(n1 * n2, Zero))]

\* gsl_matrix_alloc(n1, n2): an n1 x n2 matrix with unwritten elements, or null
gsl_matrix_alloc(H, e, n1, n2, p) ==
  IF p = NULL THEN H
  ELSE [H EXCEPT ![p] = Obj("mat", e, n1, n2, Fill(n1 * n2, Uninit))]

\* gsl_eigen_<alg>_alloc(n): a workspace sized for n, or null
gsl_eigen_alloc(H, alg, n, p) ==
  IF p = NULL THEN H
  ELSE [H EXCEPT ![p] = Obj("ws", alg, n, n, <<>>)]

\* gsl_*_free(p): releases the object; the address is never handed out again
gsl_free(H, p) ==
  IF Live(H, p) THEN [H EXCEPT ![p] = FreedObj(H[p].kind)] ELSE H

\* ------------------------------------------------- native element access
\* status the native library reports for operands of unequal dimensions
DimMismatchStatus == GSL_EINVAL

InRange(o, i) == i >= 0 /\ i < o.size1
InRange2(o, y, x) == y >= 0 /\ y < o.size1 /\ x >= 0 /\ x < o.size2
\* row-major position of element (y, x)
Pos(o, y, x) == y * o.size2 + x + 1

\* a read of an element that was never written yields an arbitrary value
ReadCell(v, junk) == IF v = Uninit THEN junk ELSE v

\* gsl_vector_get: the i-th element; out of range: handler invoked, 0 returned
gsl_vector_get(H, p, i, junk) ==
  IF ~Live(H, p) THEN [val |-> junk, err |-> FALSE]
  ELSE IF InRange(H[p], i) THEN [val |-> ReadCell(H[p].data[i + 1], junk), err |-> FALSE]
  ELSE [val |-> Zero, err |-> TRUE]

\* gsl_vector_set: writes the i-th element; out of range: handler invoked
gsl_vector_set(H, p, i, x) ==
  IF ~Live(H, p) THEN [h |-> H, err |-> FALSE]
  ELSE IF InRange(H[p], i) THEN [h |-> [H EXCEPT ![p].data[i + 1] = x], err |-> FALSE]
  ELSE [h |-> H, err |-> TRUE]

\* gsl_matrix_get: element (y, x); out of range: handler invoked, 0 returned
gsl_matrix_get(H, p, y, x, junk) ==
  IF ~Live(H, p) THEN [val |-> junk, err |-> FALSE]
  ELSE IF InRange2(H[p], y, x)
    THEN [val |-> ReadCell(H[p].data[Pos(H[p], y, x)], junk), err |-> FALSE]
  ELSE [val |-> Zero, err |-> TRUE]

\* gsl_matrix_set: writes element (y, x); out of range: handler invoked
gsl_matrix_set(H, p, y, x, v) ==
  IF ~Live(H, p) THEN [h |-> H, err |-> FALSE]
  ELSE IF InRange2(H[p], y, x)
    THEN [h |-> [H EXCEPT ![p].data[Pos(H[p], y, x)] = v], err |-> FALSE]
  ELSE [h |-> H, err |-> TRUE]

\* gsl_vector_memcpy / gsl_matrix_memcpy(dest, src): copies every element of
\* src into dest; the two must have the same dimensions
gsl_memcpy(H, d, s) ==
  IF ~Live(H, d) \/ ~Live(H, s) THEN [h |-> H, st |-> GSL_SUCCESS, err |-> FALSE]
  ELSE IF H[d].size1 # H[s].size1 \/ H[d].size2 # H[s].size2
    THEN [h |-> H, st |-> DimMismatchStatus, err |-> TRUE]
  ELSE [h |-> [H EXCEPT ![d].data = H[s].data], st |-> GSL_SUCCESS, err |-> FALSE]

\* status the native library reports for a row or column index out of range
IndexRangeStatus == GSL_EINVAL

\* gsl_matrix_get_row(v, m, y): copies row y of m into v
gsl_matrix_get_row(H, v, m, y) ==
  IF ~Live(H, v) \/ ~Live(H, m) THEN [h |-> H, st |-> GSL_SUCCESS, err |-> FALSE]
  ELSE IF y >= H[m].size1 THEN [h |-> H, st |-> IndexRangeStatus, err |-> TRUE]
  ELSE IF H[v].size1 # H[m].size2 THEN [h |-> H, st |-> DimMismatchStatus, err |-> TRUE]
  ELSE [h |-> [H EXCEPT ![v].data = [k \in 1..H[m].size2 |-> H[m].data[Pos(H[m], y, k - 1)]]],
        st |-> GSL_SUCCESS, err |-> FALSE]

\* gsl_matrix_get_col(v, m, x): copies column x of m into v
gsl_matrix_get_col(H, v, m, x) ==
  IF ~Live(H, v) \/ ~Live(H, m) THEN [h |-> H, st |-> GSL_SUCCESS, err |-> FALSE]
  ELSE IF x >= H[m].size2 THEN [h |-> H, st |-> IndexRangeStatus, err |-> TRUE]
  ELSE IF H[v].size1 # H[m].size1 THEN [h |-> H, st |-> DimMismatchStatus, err |-> TRUE]
  ELSE [h |-> [H EXCEPT ![v].data = [k \in 1..H[m].size1 |-> H[m].data[Pos(H[m], k - 1, x)]]],
        st |-> GSL_SUCCESS, err |-> FALSE]

\* gsl_matrix_transpose_memcpy(dest, src): dest(j, i) <- src(i, j); the
\* dimensions of dest must be the transposed dimensions of src
gsl_matrix_transpose_memcpy(H, d, s) ==
  IF ~Live(H, d) \/ ~Live(H, s) THEN [h |-> H, st |-> GSL_SUCCESS, err |-> FALSE]
  ELSE IF H[d].size2 # H[s].size1 \/ H[d].size1 # H[s].size2
    THEN [h |-> H, st |-> DimMismatchStatus, err |-> TRUE]
  ELSE [h |-> [H EXCEPT ![d].data =
                 [k \in 1..(H[d].size1 * H[d].size2) |->
                    H[s].data[Pos(H[s], (k - 1) % H[d].size2, (k - 1) \div H[d].size2)]]],
        st |-> GSL_SUCCESS, err |-> FALSE]

\* ------------------------------------------------------------ constructors
\* Vector_new without the null check
Vector_new_unchecked(H, e, size, tmp) ==
  Res(gsl_vector_calloc(H, e, size, tmp), Some(Handle("vec", e, tmp), NoStatus),
      <<NCall("gsl_vector_calloc", <<size>>, tmp, FALSE)>>, FALSE)

\* Vector_new on the allocator that does not clear the elements
Vector_new_alloc(H, e, size, tmp) ==
  LET H1 == gsl_vector_alloc(H, e, size, tmp)
      cs == <<NCall("gsl_vector_alloc", <<size>>, tmp, FALSE)>>
  IN  IF tmp = NULL
        THEN Res(H1, None, cs, FALSE)
        ELSE Res(H1, Some(Handle("vec", e, tmp), NoStatus), cs, FALSE)

\* VectorF64::new and its three precision variants
Vector_new(H, e, size, tmp) ==
  LET H1 == gsl_vector_calloc(H, e, size, tmp)
      cs == <<NCall("gsl_vector_calloc", <<size>>, tmp, FALSE)>>
  IN  IF tmp = NULL
        THEN Res(H1, None, cs, FALSE)
        ELSE Res(H1, Some(Handle("vec", e, tmp), NoStatus), cs, FALSE)

\* MatrixF64::new and its three precision variants
Matrix_new(H, e, n1, n2, tmp) ==
  LET H1 == gsl_matrix_calloc(H, e, n1, n2, tmp)
      cs == <<NCall("gsl_matrix_calloc", <<n1, n2>>, tmp, FALSE)>>
  IN  IF tmp = NULL
        THEN Res(H1, None, cs, FALSE)
        ELSE Res(H1, Some(Handle("mat", e, tmp), NoStatus), cs, FALSE)

\* EigenSymmetricWorkspace::new and the other workspace constructors
Workspace_new(H, alg, n, tmp) ==
  LET H1 == gsl_eigen_alloc(H, alg, n, tmp)
      cs == <<NCall("gsl_eigen_alloc", <<n>>, tmp, FALSE)>>
  IN  IF tmp = NULL
        THEN Res(H1, None, cs, FALSE)
        ELSE Res(H1, Some(Handle("ws", alg, tmp), NoStatus), cs, FALSE)

\* ------------------------------------------------------ element accessors
\* VectorF64::get
Vector_get(H, self, i, junk) ==
  LET r == gsl_vector_get(H, self.ptr, i, junk)
  IN  Res(H, Elem(r.val), <<NCall("gsl_vector_get", <<self.ptr, i>>, r.val, r.err)>>,
          ~Live(H, self.ptr))

\* Vector_set that checks the index itself and skips the native call
Vector_set_checked(H, self, i, x) ==
  IF Live(H, self.ptr) /\ ~InRange(H[self.ptr], i) THEN Res(H, Unit, <<>>, FALSE)
  ELSE LET r == gsl_vector_set(H, self.ptr, i, x)
       IN  Res(r.h, Unit, <<NCall("gsl_vector_set", <<self.ptr, i, x>>, 0, r.err)>>,
               ~Live(H, self.ptr))

\* VectorF64::set
Vector_set(H, self, i, x) ==
  LET r == gsl_vector_set(H, self.ptr, i, x)
  IN  Res(r.h, Unit, <<NCall("gsl_vector_set", <<self.ptr, i, x>>, 0, r.err)>>,
          ~Live(H, self.ptr))

\* Matrix_get with the row and the column exchanged
Matrix_get_swapped(H, self, y, x, junk) ==
  LET r == gsl_matrix_get(H, self.ptr, x, y, junk)
  IN  Res(H, Elem(r.val), <<NCall("gsl_matrix_get", <<self.ptr, x, y>>, r.val, r.err)>>,
          ~Live(H, self.ptr))

\* MatrixF64::get
Matrix_get(H, self, y, x, junk) ==
  LET r == gsl_matrix_get(H, self.ptr, y, x, junk)
  IN  Res(H, Elem(r.val), <<NCall("gsl_matrix_get", <<self.ptr, y, x>>, r.val, r.err)>>,
          ~Live(H, self.ptr))

\* MatrixF64::set
Matrix_set(H, self, y, x, value) ==
  LET r == gsl_matrix_set(H, self.ptr, y, x, value)
  IN  Res(r.h, Unit, <<NCall("gsl_matrix_set", <<self.ptr, y, x, value>>, 0, r.err)>>,
          ~Live(H, self.ptr))

\* VectorF64::from_slice: allocate, then set element pos to slice[pos] for
\* pos = 0, 1, ... in order
RECURSIVE FromSliceLoop(_, _, _, _)
FromSliceLoop(R, v, slice, pos) ==
  IF pos >= Len(slice) THEN R
  ELSE LET w == Vector_set(R.h, v, pos, slice[pos + 1])
       IN  FromSliceLoop(Res(w.h, R.ret, R.calls \o w.calls, R.ub \/ w.ub), v, slice, pos + 1)

\* Vector_from_slice whose loop starts at the second element
Vector_from_slice_skipping(H, e, slice, tmp) ==
  LET H1 == gsl_vector_alloc(H, e, Len(slice), tmp)
      cs == <<NCall("gsl_vector_alloc", <<Len(slice)>>, tmp, FALSE)>>
  IN  IF tmp = NULL
        THEN Res(H1, None, cs, FALSE)
        ELSE LET v == Handle("vec", e, tmp)
             IN  FromSliceLoop(Res(H1, Some(v, NoStatus), cs, FALSE), v, slice, 1)

Vector_from_slice(H, e, slice, tmp) ==
  LET H1 == gsl_vector_alloc(H, e, Len(slice), tmp)
      cs == <<NCall("gsl_vector_alloc", <<Len(slice)>>, tmp, FALSE)>>
  IN  IF tmp = NULL
        THEN Res(H1, None, cs, FALSE)
        ELSE LET v == Handle("vec", e, tmp)
             IN  FromSliceLoop(Res(H1, Some(v, NoStatus), cs, FALSE), v, slice, 0)

\* VectorF64::len
Vector_len(H, self) == IF self.ptr = NULL THEN 0 ELSE H[self.ptr].size1

\* ------------------------------------------------------------------ copies
\* VectorF64::copy_from
Vector_copy_from(H, self, other) ==
  LET r == gsl_memcpy(H, self.ptr, other.ptr)
  IN  Res(r.h, Status(r.st), <<NCall("gsl_vector_memcpy", <<self.ptr, other.ptr>>, r.st, r.err)>>,
          ~Live(H, self.ptr) \/ ~Live(H, other.ptr))

\* MatrixF64::copy_from
Matrix_copy_from(H, self, other) ==
  LET r == gsl_memcpy(H, self.ptr, other.ptr)
  IN  Res(r.h, Status(r.st), <<NCall("gsl_matrix_memcpy", <<self.ptr, other.ptr>>, r.st, r.err)>>,
          ~Live(H, self.ptr) \/ ~Live(H, other.ptr))

\* Vector_clone as a copy of the pointer
Vector_clone_alias(H, self, tmp) == Res(H, Some(self, NoStatus), <<>>, FALSE)

\* Vector_clone without the copy of the elements
Vector_clone_nocopy(H, self, tmp) ==
  IF self.ptr = NULL THEN Res(H, None, <<>>, FALSE)
  ELSE Vector_new(H, self.elem, H[self.ptr].size1, tmp)

\* VectorF64::clone: a new vector of the same length, then copy_from(self),
\* whose status is dropped
Vector_clone(H, self, tmp) ==
  IF self.ptr = NULL THEN Res(H, None, <<>>, FALSE)
  ELSE LET n == Vector_new(H, self.elem, H[self.ptr].size1, tmp)
       IN  IF n.ret = None
             THEN Res(n.h, None, n.calls, ~Live(H, self.ptr))
             ELSE LET c == Vector_copy_from(n.h, n.ret.hd, self)
                  IN  Res(c.h, Some(n.ret.hd, NoStatus), n.calls \o c.calls,
                          ~Live(H, self.ptr) \/ c.ub)

\* Matrix_clone as a copy of the pointer
Matrix_clone_alias(H, self, tmp) == Res(H, Some(self, NoStatus), <<>>, FALSE)

\* Matrix_clone that allocates a square matrix of size1 rows
Matrix_clone_square(H, self, tmp) ==
  IF self.ptr = NULL THEN Res(H, None, <<>>, FALSE)
  ELSE LET n == Matrix_new(H, self.elem, H[self.ptr].size1, H[self.ptr].size1, tmp)
       IN  IF n.ret = None
             THEN Res(n.h, None, n.calls, ~Live(H, self.ptr))
             ELSE LET c == Matrix_copy_from(n.h, n.ret.hd, self)
                  IN  Res(c.h, Some(n.ret.hd, NoStatus), n.calls \o c.calls,
                          ~Live(H, self.ptr) \/ c.ub)

\* MatrixF64::clone
Matrix_clone(H, self, tmp) ==
  IF self.ptr = NULL THEN Res(H, None, <<>>, FALSE)
  ELSE LET n == Matrix_new(H, self.elem, H[self.ptr].size1, H[self.ptr].size2, tmp)
       IN  IF n.ret = None
             THEN Res(n.h, None, n.calls, ~Live(H, self.ptr))
             ELSE LET c == Matrix_copy_from(n.h, n.ret.hd, self)
                  IN  Res(c.h, Some(n.ret.hd, NoStatus), n.calls \o c.calls,
                          ~Live(H, self.ptr) \/ c.ub)

\* Matrix_get_row that takes the column y instead
Matrix_get_row_ascol(H, self, y, tmp) ==
  LET n  == IF Live(H, self.ptr) THEN H[self.ptr].size1 ELSE 0
      H1 == gsl_vector_alloc(H, self.elem, n, tmp)
      cs == <<NCall("gsl_vector_alloc", <<n>>, tmp, FALSE)>>
  IN  IF tmp = NULL
        THEN Res(H1, None, cs, ~Live(H, self.ptr))
        ELSE LET r == gsl_matrix_get_col(H1, tmp, self.ptr, y)
             IN  Res(r.h, Some(Handle("vec", self.elem, tmp), r.st),
                     cs \o <<NCall("gsl_matrix_get_col", <<tmp, self.ptr, y>>, r.st, r.err)>>,
                     ~Live(H, self.ptr))

\* MatrixF64::get_row
Matrix_get_row(H, self, y, tmp) ==
  LET n  == IF Live(H, self.ptr) THEN H[self.ptr].size2 ELSE 0
      H1 == gsl_vector_alloc(H, self.elem, n, tmp)
      cs == <<NCall("gsl_vector_alloc", <<n>>, tmp, FALSE)>>
  IN  IF tmp = NULL
        THEN Res(H1, None, cs, ~Live(H, self.ptr))
        ELSE LET r == gsl_matrix_get_row(H1, tmp, self.ptr, y)
             IN  Res(r.h, Some(Handle("vec", self.elem, tmp), r.st),
                     cs \o <<NCall("gsl_matrix_get_row", <<tmp, self.ptr, y>>, r.st, r.err)>>,
                     ~Live(H, self.ptr))

\* Matrix_get_col that returns None when the native copy failed
Matrix_get_col_leaking(H, self, x, tmp) ==
  LET n  == IF Live(H, self.ptr) THEN H[self.ptr].size1 ELSE 0
      H1 == gsl_vector_alloc(H, self.elem, n, tmp)
      cs == <<NCall("gsl_vector_alloc", <<n>>, tmp, FALSE)>>
  IN  IF tmp = NULL
        THEN Res(H1, None, cs, ~Live(H, self.ptr))
        ELSE LET r == gsl_matrix_get_col(H1, tmp, self.ptr, x)
                 c == cs \o <<NCall("gsl_matrix_get_col", <<tmp, self.ptr, x>>, r.st, r.err)>>
             IN  IF r.st # GSL_SUCCESS THEN Res(r.h, None, c, ~Live(H, self.ptr))
                 ELSE Res(r.h, Some(Handle("vec", self.elem, tmp), r.st), c,
                          ~Live(H, self.ptr))

\* MatrixF64::get_col
Matrix_get_col(H, self, x, tmp) ==
  LET n  == IF Live(H, self.ptr) THEN H[self.ptr].size1 ELSE 0
      H1 == gsl_vector_alloc(H, self.elem, n, tmp)
      cs == <<NCall("gsl_vector_alloc", <<n>>, tmp, FALSE)>>
  IN  IF tmp = NULL
        THEN Res(H1, None, cs, ~Live(H, self.ptr))
        ELSE LET r == gsl_matrix_get_col(H1, tmp, self.ptr, x)
             IN  Res(r.h, Some(Handle("vec", self.elem, tmp), r.st),
                     cs \o <<NCall("gsl_matrix_get_col", <<tmp, self.ptr, x>>, r.st, r.err)>>,
                     ~Live(H, self.ptr))

\* MatrixF64::transpose_memcpy: dest is allocated with (size1, size2) of self
Matrix_transpose_memcpy(H, self, tmp) ==
  LET n1 == IF Live(H, self.ptr) THEN H[self.ptr].size1 ELSE 0
      n2 == IF Live(H, self.ptr) THEN H[self.ptr].size2 ELSE 0
      H1 == gsl_matrix_alloc(H, self.elem, n1, n2, tmp)
      cs == <<NCall("gsl_matrix_alloc", <<n1, n2>>, tmp, FALSE)>>
  IN  IF tmp = NULL
        THEN Res(H1, None, cs, ~Live(H, self.ptr))
        ELSE LET r == gsl_matrix_transpose_memcpy(H1, tmp, self.ptr)
             IN  Res(r.h, Some(Handle("mat", self.elem, tmp), r.st),
                     cs \o <<NCall("gsl_matrix_transpose_memcpy", <<tmp, self.ptr>>, r.st, r.err)>>,
                     ~Live(H, self.ptr))

\* VectorF64::get_ffi / MatrixF64::get_ffi: hands out the owned pointer
get_ffi(H, self) == Res(H, Ptrv(self.ptr), <<>>, FALSE)

\* ---------------------------------------------------------------- drop
FreeFn(k) == IF k = "vec" THEN "gsl_vector_free"
             ELSE IF k = "mat" THEN "gsl_matrix_free" ELSE "gsl_eigen_free"

\* Container_drop without the call to free
Container_drop_leak(H, self) == Res(H, Unit, <<>>, FALSE)

\* impl Drop for VectorF64 / MatrixF64: free(self.vec); self.vec = null
Container_drop(H, self) ==
  Res(gsl_free(H, self.ptr), Unit,
      <<NCall(FreeFn(self.kind), <<self.ptr>>, 0, FALSE)>>, ~Live(H, self.ptr))

\* the Drop that ffi_wrapper! generates for a workspace type
Workspace_drop(H, self) ==
  Res(gsl_free(H, self.ptr), Unit,
      <<NCall(FreeFn(self.kind), <<self.ptr>>, 0, FALSE)>>, ~Live(H, self.ptr))

\* --------------------------------------------------- elementwise arithmetic
\* elements are pairs <<re, im>>; im = 0 for the real precisions
AddE(x, y) == <<x[1] + y[1], x[2] + y[2]>>
SubE(x, y) == <<x[1] - y[1], x[2] - y[2]>>
MulE(x, y) == <<x[1] * y[1] - x[2] * y[2], x[1] * y[2] + x[2] * y[1]>>
Norm2(y) == y[1] * y[1] + y[2] * y[2]
DivNum(x, y) == <<x[1] * y[1] + x[2] * y[2], x[2] * y[1] - x[1] * y[2]>>
\* the quotient x / y is a pair of integers
ExactDiv(x, y) ==
  /\ Norm2(y) # 0
  /\ DivNum(x, y)[1] % Norm2(y) = 0
  /\ DivNum(x, y)[2] % Norm2(y) = 0
DivE(x, y) == <<DivNum(x, y)[1] \div Norm2(y), DivNum(x, y)[2] \div Norm2(y)>>

ApplyOp(o, x, y) ==
  IF x = Uninit \/ y = Uninit THEN Uninit
  ELSE CASE o = "add" -> AddE(x, y)
         [] o = "sub" -> SubE(x, y)
         [] o = "mul" -> MulE(x, y)
         [] o = "div" -> DivE(x, y)

\* gsl_vector_add/sub/mul/div and gsl_matrix_add/sub/mul_elements/
\* div_elements(a, b): a_i <- a_i o b_i; b is read only; the two must have
\* the same dimensions
gsl_elementwise(H, o, a, b) ==
  IF ~Live(H, a) \/ ~Live(H, b) THEN [h |-> H, st |-> GSL_SUCCESS, err |-> FALSE]
  ELSE IF H[a].size1 # H[b].size1 \/ H[a].size2 # H[b].size2
    THEN [h |-> H, st |-> DimMismatchStatus, err |-> TRUE]
  ELSE [h |-> [H EXCEPT ![a].data =
                 [k \in 1..Len(H[a].data) |-> ApplyOp(o, H[a].data[k], H[b].data[k])]],
        st |-> GSL_SUCCESS, err |-> FALSE]

\* the wrapper forwards both pointers and returns the native status
Forward(H, fn, o, self, other) ==
  LET r == gsl_elementwise(H, o, self.ptr, other.ptr)
  IN  Res(r.h, Status(r.st), <<NCall(fn, <<self.ptr, other.ptr>>, r.st, r.err)>>,
          ~Live(H, self.ptr) \/ ~Live(H, other.ptr))

\* Vector_add that checks the lengths itself and reports nothing
Vector_add_checked(H, self, other) ==
  IF H[self.ptr].size1 # H[other.ptr].size1
    THEN Res(H, Status(GSL_SUCCESS), <<>>, FALSE)
    ELSE Forward(H, "gsl_vector_add", "add", self, other)

\* VectorF64::add
Vector_add(H, self, other) == Forward(H, "gsl_vector_add", "add", self, other)

\* Vector_sub that passes its operands in the opposite order
Vector_sub_swapped(H, self, other) == Forward(H, "gsl_vector_sub", "sub", other, self)

\* VectorF64::sub
Vector_sub(H, self, other) == Forward(H, "gsl_vector_sub", "sub", self, other)

\* VectorF64::mul
Vector_mul(H, self, other) == Forward(H, "gsl_vector_mul", "mul", self, other)

\* VectorF64::div
Vector_div(H, self, other) == Forward(H, "gsl_vector_div", "div", self, other)

\* MatrixF64::add
Matrix_add(H, self, other) == Forward(H, "gsl_matrix_add", "add", self, other)

\* MatrixF64::sub
Matrix_sub(H, self, other) == Forward(H, "gsl_matrix_sub", "sub", self, other)

\* MatrixF64::mul_elements
Matrix_mul_elements(H, self, other) ==
  Forward(H, "gsl_matrix_mul_elements", "mul", self, other)

\* MatrixF64::div_elements
Matrix_div_elements(H, self, other) ==
  Forward(H, "gsl_matrix_div_elements", "div", self, other)

\* the element type of the operand that div_elements of a matrix of element
\* type e accepts: MatrixComplexF32::div_elements takes a &MatrixF32
DivOperandType(e) == IF e = "CF32" THEN "F32" ELSE e

\* MatrixF64::div_elements and its three precision variants, on the operand
\* the signature admits: the native function of self's element type gets
\* both pointers.  Handed a matrix of another element type it reads the
\* divisors through its own element layout, past what the operand holds:
\* the quotients it stores are whatever was read (junk).
Matrix_div_elements_typed(H, self, other, junk) ==
  IF other.elem = self.elem \/ ~Live(H, self.ptr) \/ ~Live(H, other.ptr)
    THEN Matrix_div_elements(H, self, other)
  ELSE IF \/ H[self.ptr].size1 # H[other.ptr].size1
          \/ H[self.ptr].size2 # H[other.ptr].size2
    THEN Res(H, Status(DimMismatchStatus),
             <<NCall("gsl_matrix_div_elements", <<self.ptr, other.ptr>>,
                     DimMismatchStatus, TRUE)>>, FALSE)
  ELSE Res([H EXCEPT ![self.ptr].data = [k \in 1..Len(H[self.ptr].data) |-> junk]],
           Status(GSL_SUCCESS),
           <<NCall("gsl_matrix_div_elements", <<self.ptr, other.ptr>>, GSL_SUCCESS, FALSE)>>,
           TRUE)

\* the wrapper of elementwise operation o for a container of kind k
Elementwise(H, k, o, self, other) ==
  CASE k = "vec" /\ o = "add" -> Vector_add(H, self, other)
    [] k = "vec" /\ o = "sub" -> Vector_sub(H, self, other)
    [] k = "vec" /\ o = "mul" -> Vector_mul(H, self, other)
    [] k = "vec" /\ o = "div" -> Vector_div(H, self, other)
    [] k = "mat" /\ o = "add" -> Matrix_add(H, self, other)
    [] k = "mat" /\ o = "sub" -> Matrix_sub(H, self, other)
    [] k = "mat" /\ o = "mul" -> Matrix_mul_elements(H, self, other)
    [] k = "mat" /\ o = "div" -> Matrix_div_elements(H, self, other)

\* ---------------------------------------------------------- bulk operations
One == <<1, 0>>

\* the native function `name` of the container family of self
KindFn(self, name) ==
  (IF self.kind = "vec" THEN "gsl_vector_" ELSE "gsl_matrix_") \o name

\* gsl_vector_set_all / gsl_matrix_set_all(p, x): every element <- x
gsl_set_all(H, p, x) ==
  IF ~Live(H, p) THEN H
  ELSE [H EXCEPT ![p].data = [k \in 1..Len(H[p].data) |-> x]]

\* gsl_vector_set_basis(v, i): every element <- 0 except the i-th <- 1; out
\* of range: handler invoked
gsl_vector_set_basis(H, p, i) ==
  IF ~Live(H, p) THEN [h |-> H, err |-> FALSE]
  ELSE IF ~InRange(H[p], i) THEN [h |-> H, err |-> TRUE]
  ELSE [h |-> [H EXCEPT ![p].data =
                 [k \in 1..Len(H[p].data) |-> IF k = i + 1 THEN One ELSE Zero]],
        err |-> FALSE]

\* gsl_matrix_set_identity(m): m(i, j) <- delta(i, j)
gsl_matrix_set_identity(H, p) ==
  IF ~Live(H, p) THEN H
  ELSE [H EXCEPT ![p].data =
          [k \in 1..Len(H[p].data) |->
             IF (k - 1) \div H[p].size2 = (k - 1) % H[p].size2 THEN One ELSE Zero]]

\* gsl_vector_swap / gsl_matrix_swap(a, b): exchanges the elements of the
\* two, which must have the same dimensions
gsl_swap(H, a, b) ==
  IF ~Live(H, a) \/ ~Live(H, b) THEN [h |-> H, st |-> GSL_SUCCESS, err |-> FALSE]
  ELSE IF H[a].size1 # H[b].size1 \/ H[a].size2 # H[b].size2
    THEN [h |-> H, st |-> DimMismatchStatus, err |-> TRUE]
  ELSE [h |-> [H EXCEPT ![a].data = H[b].data, ![b].data = H[a].data],
        st |-> GSL_SUCCESS, err |-> FALSE]

\* gsl_vector_reverse(v): reverses the order of the elements
gsl_vector_reverse(H, p) ==
  IF ~Live(H, p) THEN [h |-> H, st |-> GSL_SUCCESS, err |-> FALSE]
  ELSE [h |-> [H EXCEPT ![p].data =
                 [k \in 1..Len(H[p].data) |-> H[p].data[Len(H[p].data) + 1 - k]]],
        st |-> GSL_SUCCESS, err |-> FALSE]

\* gsl_matrix_transpose(m): m(i, j) <-> m(j, i) in place; the matrix must
\* be square
gsl_matrix_transpose(H, p) ==
  IF ~Live(H, p) THEN [h |-> H, st |-> GSL_SUCCESS, err |-> FALSE]
  ELSE IF H[p].size1 # H[p].size2 THEN [h |-> H, st |-> DimMismatchStatus, err |-> TRUE]
  ELSE [h |-> [H EXCEPT ![p].data =
                 [k \in 1..Len(H[p].data) |->
                    H[p].data[Pos(H[p], (k - 1) % H[p].size2, (k - 1) \div H[p].size2)]]],
        st |-> GSL_SUCCESS, err |-> FALSE]

\* gsl_matrix_set_row(m, y, v): row y of m <- v; the length of v must be
\* the length of the row
gsl_matrix_set_row(H, m, y, v) ==
  IF ~Live(H, v) \/ ~Live(H, m) THEN [h |-> H, st |-> GSL_SUCCESS, err |-> FALSE]
  ELSE IF y >= H[m].size1 THEN [h |-> H, st |-> IndexRangeStatus, err |-> TRUE]
  ELSE IF H[v].size1 # H[m].size2 THEN [h |-> H, st |-> DimMismatchStatus, err |-> TRUE]
  ELSE [h |-> [H EXCEPT ![m].data =
                 [k \in 1..Len(H[m].data) |->
                    IF (k - 1) \div H[m].size2 = y
                      THEN H[v].data[((k - 1) % H[m].size2) + 1]
                      ELSE H[m].data[k]]],
        st |-> GSL_SUCCESS, err |-> FALSE]

\* gsl_matrix_set_col(m, x, v): column x of m <- v; the length of v must be
\* the length of the column
gsl_matrix_set_col(H, m, x, v) ==
  IF ~Live(H, v) \/ ~Live(H, m) THEN [h |-> H, st |-> GSL_SUCCESS, err |-> FALSE]
  ELSE IF x >= H[m].size2 THEN [h |-> H, st |-> IndexRangeStatus, err |-> TRUE]
  ELSE IF H[v].size1 # H[m].size1 THEN [h |-> H, st |-> DimMismatchStatus, err |-> TRUE]
  ELSE [h |-> [H EXCEPT ![m].data =
                 [k \in 1..Len(H[m].data) |->
                    IF (k - 1) % H[m].size2 = x
                      THEN H[v].data[((k - 1) \div H[m].size2) + 1]
                      ELSE H[m].data[k]]],
        st |-> GSL_SUCCESS, err |-> FALSE]

\* VectorF64::set_all / MatrixF64::set_all
Container_set_all(H, self, x) ==
  Res(gsl_set_all(H, self.ptr, x), Unit,
      <<NCall(KindFn(self, "set_all"), <<self.ptr, x>>, 0, FALSE)>>, ~Live(H, self.ptr))

\* VectorF64::set_zero / MatrixF64::set_zero
Container_set_zero(H, self) ==
  Res(gsl_set_all(H, self.ptr, Zero), Unit,
      <<NCall(KindFn(self, "set_zero"), <<self.ptr>>, 0, FALSE)>>, ~Live(H, self.ptr))

\* VectorF64::set_basis
Vector_set_basis(H, self, i) ==
  LET r == gsl_vector_set_basis(H, self.ptr, i)
  IN  Res(r.h, Unit, <<NCall("gsl_vector_set_basis", <<self.ptr, i>>, 0, r.err)>>,
          ~Live(H, self.ptr))

\* MatrixF64::set_identity
Matrix_set_identity(H, self) ==
  Res(gsl_matrix_set_identity(H, self.ptr), Unit,
      <<NCall("gsl_matrix_set_identity", <<self.ptr>>, 0, FALSE)>>, ~Live(H, self.ptr))

\* Container_copy_to with the direction of the copy reversed
Container_copy_to_reversed(H, self, other) ==
  LET r == gsl_memcpy(H, self.ptr, other.ptr)
  IN  Res(r.h, Status(r.st),
          <<NCall(KindFn(self, "memcpy"), <<self.ptr, other.ptr>>, r.st, r.err)>>,
          ~Live(H, self.ptr) \/ ~Live(H, other.ptr))

\* VectorF64::copy_to / MatrixF64::copy_to: the native copy with other as
\* the destination
Container_copy_to(H, self, other) ==
  LET r == gsl_memcpy(H, other.ptr, self.ptr)
  IN  Res(r.h, Status(r.st),
          <<NCall(KindFn(self, "memcpy"), <<other.ptr, self.ptr>>, r.st, r.err)>>,
          ~Live(H, self.ptr) \/ ~Live(H, other.ptr))

\* VectorF64::swap (other first) / MatrixF64::swap (self first)
Container_swap(H, self, other) ==
  LET a == IF self.kind = "vec" THEN other.ptr ELSE self.ptr
      b == IF self.kind = "vec" THEN self.ptr ELSE other.ptr
      r == gsl_swap(H, a, b)
  IN  Res(r.h, Status(r.st), <<NCall(KindFn(self, "swap"), <<a, b>>, r.st, r.err)>>,
          ~Live(H, self.ptr) \/ ~Live(H, other.ptr))

\* VectorF64::reverse
Vector_reverse(H, self) ==
  LET r == gsl_vector_reverse(H, self.ptr)
  IN  Res(r.h, Status(r.st), <<NCall("gsl_vector_reverse", <<self.ptr>>, r.st, r.err)>>,
          ~Live(H, self.ptr))

\* Matrix_transpose that exchanges the row and column counts as well
Matrix_transpose_reshape(H, self) ==
  LET o == H[self.ptr]
      t == [o EXCEPT !.size1 = o.size2, !.size2 = o.size1,
                     !.data = [k \in 1..Len(o.data) |->
                                 o.data[Pos(o, (k - 1) % o.size1, (k - 1) \div o.size1)]]]
  IN  Res([H EXCEPT ![self.ptr] = t], Status(GSL_SUCCESS),
          <<NCall("gsl_matrix_transpose", <<self.ptr>>, GSL_SUCCESS, FALSE)>>, FALSE)

\* MatrixF64::transpose
Matrix_transpose(H, self) ==
  LET r == gsl_matrix_transpose(H, self.ptr)
  IN  Res(r.h, Status(r.st), <<NCall("gsl_matrix_transpose", <<self.ptr>>, r.st, r.err)>>,
          ~Live(H, self.ptr))

\* MatrixF64::set_row
Matrix_set_row(H, self, y, v) ==
  LET r == gsl_matrix_set_row(H, self.ptr, y, v.ptr)
  IN  Res(r.h, Status(r.st),
          <<NCall("gsl_matrix_set_row", <<self.ptr, y, v.ptr>>, r.st, r.err)>>,
          ~Live(H, self.ptr) \/ ~Live(H, v.ptr))

\* MatrixF64::set_col
Matrix_set_col(H, self, x, v) ==
  LET r == gsl_matrix_set_col(H, self.ptr, x, v.ptr)
  IN  Res(r.h, Status(r.st),
          <<NCall("gsl_matrix_set_col", <<self.ptr, x, v.ptr>>, r.st, r.err)>>,
          ~Live(H, self.ptr) \/ ~Live(H, v.ptr))

\* ------------------------------------------------------- reduction queries
Bool(b) == [tag |-> "Bool", val |-> b]
Tuple(t) == [tag |-> "Tuple", val |-> t]

\* the elements of p as a native function reads them
Cells(H, p, junk) == [k \in 1..Len(H[p].data) |-> ReadCell(H[p].data[k], junk)]

\* the real part of the largest / smallest element
MaxOf(d) == CHOOSE v \in {d[k][1] : k \in 1..Len(d)} : \A k \in 1..Len(d) : d[k][1] <= v
MinOf(d) == CHOOSE v \in {d[k][1] : k \in 1..Len(d)} : \A k \in 1..Len(d) : d[k][1] >= v

\* position of the first element with real part v, as the native function
\* reports it: an index for a vector, a row and a column for a matrix
IndexOf(o, d, v) ==
  LET k == SetMin({j \in 1..Len(d) : d[j][1] = v})
  IN  IF o.kind = "vec" THEN <<k - 1>>
      ELSE <<(k - 1) \div o.size2, (k - 1) % o.size2>>

\* the components of an element that a sign test inspects
Comps(o, v) == IF IsComplex(o.elem) THEN {v[1], v[2]} ELSE {v[1]}

\* gsl_vector_isnull / ispos / isneg / isnonneg and the matrix forms: 1 if
\* every element passes the test, else 0
gsl_is(o, d, test) ==
  IF \A k \in 1..Len(d) : \A c \in Comps(o, d[k]) :
       CASE test = "isnull" -> c = 0
         [] test = "ispos" -> c > 0
         [] test = "isneg" -> c < 0
         [] test = "isnonneg" -> c >= 0
    THEN 1 ELSE 0

\* gsl_vector_equal / gsl_matrix_equal(a, b): 1 if the two have the same
\* dimensions and elements, else 0; different dimensions: handler invoked
gsl_equal(H, a, b, junk) ==
  IF ~Live(H, a) \/ ~Live(H, b) THEN [val |-> 0, err |-> FALSE]
  ELSE IF H[a].size1 # H[b].size1 \/ H[a].size2 # H[b].size2 THEN [val |-> 0, err |-> TRUE]
  ELSE [val |-> IF Cells(H, a, junk) = Cells(H, b, junk) THEN 1 ELSE 0, err |-> FALSE]

\* a query wrapper: one native call on the pointer, H handed back as it is
Query(H, self, name, r) ==
  Res(H, r, <<NCall(KindFn(self, name), <<self.ptr>>, 0, FALSE)>>, ~Live(H, self.ptr))

\* VectorF64::max / MatrixF64::max
Container_max(H, self, junk) ==
  Query(H, self, "max",
        IF Live(H, self.ptr) THEN Elem(<<MaxOf(Cells(H, self.ptr, junk)), 0>>) ELSE Elem(junk))

\* VectorF64::min / MatrixF64::min
Container_min(H, self, junk) ==
  Query(H, self, "min",
        IF Live(H, self.ptr) THEN Elem(<<MinOf(Cells(H, self.ptr, junk)), 0>>) ELSE Elem(junk))

\* VectorF64::minmax / MatrixF64::minmax: the two values written to
\* min_out and max_out
Container_minmax(H, self, junk) ==
  Query(H, self, "minmax",
        IF Live(H, self.ptr)
          THEN LET d == Cells(H, self.ptr, junk) IN Tuple(<<MinOf(d), MaxOf(d)>>)
          ELSE Tuple(<<junk[1], junk[1]>>))

\* VectorF64::max_index / MatrixF64::max_index
Container_max_index(H, self, junk) ==
  Query(H, self, "max_index",
        IF Live(H, self.ptr)
          THEN LET d == Cells(H, self.ptr, junk) IN Tuple(IndexOf(H[self.ptr], d, MaxOf(d)))
          ELSE Tuple(<<0>>))

\* VectorF64::min_index / MatrixF64::min_index
Container_min_index(H, self, junk) ==
  Query(H, self, "min_index",
        IF Live(H, self.ptr)
          THEN LET d == Cells(H, self.ptr, junk) IN Tuple(IndexOf(H[self.ptr], d, MinOf(d)))
          ELSE Tuple(<<0>>))

\* Container_minmax_index that returns the position of the maximum first
Container_minmax_index_swapped(H, self, junk) ==
  Query(H, self, "minmax_index",
        IF Live(H, self.ptr)
          THEN LET d == Cells(H, self.ptr, junk)
               IN  Tuple(IndexOf(H[self.ptr], d, MaxOf(d)) \o IndexOf(H[self.ptr], d, MinOf(d)))
          ELSE Tuple(<<0, 0>>))

\* VectorF64::minmax_index / MatrixF64::minmax_index
Container_minmax_index(H, self, junk) ==
  Query(H, self, "minmax_index",
        IF Live(H, self.ptr)
          THEN LET d == Cells(H, self.ptr, junk)
               IN  Tuple(IndexOf(H[self.ptr], d, MinOf(d)) \o IndexOf(H[self.ptr], d, MaxOf(d)))
          ELSE Tuple(<<0, 0>>))

\* VectorF64::is_null / is_pos / is_neg / is_non_neg and the matrix forms:
\* true exactly if the native test returns 1
Container_is(H, self, test, junk) ==
  Query(H, self, test,
        Bool(Live(H, self.ptr) /\ gsl_is(H[self.ptr], Cells(H, self.ptr, junk), test) = 1))

\* Container_is_null that clears the container before testing it
Container_is_null_zeroing(H, self, junk) ==
  Res(gsl_set_all(H, self.ptr, Zero), Bool(TRUE),
      <<NCall(KindFn(self, "isnull"), <<self.ptr>>, 0, FALSE)>>, ~Live(H, self.ptr))

\* VectorF64::is_null / MatrixF64::is_null
Container_is_null(H, self, junk) == Container_is(H, self, "isnull", junk)

\* VectorF64::is_pos / MatrixF64::is_pos
Container_is_pos(H, self, junk) == Container_is(H, self, "ispos", junk)

\* VectorF64::is_neg / MatrixF64::is_neg
Container_is_neg(H, self, junk) == Container_is(H, self, "isneg", junk)

\* VectorF64::is_non_neg / MatrixF64::is_non_neg
Container_is_non_neg(H, self, junk) == Container_is(H, self, "isnonneg", junk)

\* VectorF64::equal / MatrixF64::equal
Container_equal(H, self, other, junk) ==
  LET r == gsl_equal(H, self.ptr, other.ptr, junk)
  IN  Res(H, Bool(r.val = 1),
          <<NCall(KindFn(self, "equal"), <<self.ptr, other.ptr>>, r.val, r.err)>>,
          ~Live(H, self.ptr) \/ ~Live(H, other.ptr))

\* the reduction queries; those that order the elements exist for the real
\* precisions only
OrderQueries == {"max", "min", "minmax", "max_index", "min_index", "minmax_index"}
Queries == OrderQueries \cup {"is_null", "is_pos", "is_neg", "is_non_neg"}

\* the wrapper of query q
QueryOf(H, q, self, junk) ==
  CASE q = "max" -> Container_max(H, self, junk)
    [] q = "min" -> Container_min(H, self, junk)
    [] q = "minmax" -> Container_minmax(H, self, junk)
    [] q = "max_index" -> Container_max_index(H, self, junk)
    [] q = "min_index" -> Container_min_index(H, self, junk)
    [] q = "minmax_index" -> Container_minmax_index(H, self, junk)
    [] q = "is_null" -> Container_is_null(H, self, junk)
    [] q = "is_pos" -> Container_is_pos(H, self, junk)
    [] q = "is_neg" -> Container_is_neg(H, self, junk)
    [] q = "is_non_neg" -> Container_is_non_neg(H, self, junk)

\* -------------------------------------------------------- eigen workspaces
\* Value::from: the member of the status enumeration for a native code; a
\* code that is not a documented one is the generic failure
Value_from(i) ==
  CASE i = GSL_SUCCESS -> "Success"
    [] i = GSL_EDOM -> "Domain"
    [] i = GSL_ERANGE -> "Range"
    [] i = GSL_EINVAL -> "Invalid"
    [] i = GSL_ENOMEM -> "NoMemory"
    [] i = GSL_EMAXITER -> "MaxIteration"
    [] i = GSL_EUNDRFLW -> "UnderFlow"
    [] i = GSL_EOVRFLW -> "OverFlow"
    [] OTHER -> "Failure"

\* a cell the native algorithm left in an unspecified state
Unknown == <<-2, -2>>

\* status the native library reports for a workspace smaller than the matrix
WorkspaceTooSmallStatus == GSL_EINVAL

\* cell k (row-major) of o lies on the diagonal or in the lower triangle
LowerOrDiag(o, k) == ((k - 1) \div o.size2) >= ((k - 1) % o.size2)

\* a cell as a digit in base (MaxVal + 3) squared
CellCode(v) ==
  ((v[1] + 2) % (MaxVal + 3)) + (MaxVal + 3) * ((v[2] + 2) % (MaxVal + 3))

RECURSIVE ReadCode(_, _)
\* the cells the computation reads, from cell k on, as one number: the
\* diagonal and the lower triangle of o, the strict upper triangle left out
ReadCode(o, k) ==
  IF k > Len(o.data) THEN 0
  ELSE IF LowerOrDiag(o, k)
    THEN (CellCode(o.data[k])
            + (MaxVal + 3) * (MaxVal + 3) * ReadCode(o, k + 1)) % 1000003
  ELSE ReadCode(o, k + 1)

\* a result of the computation on matrix o: the numerics are not modelled,
\* the result is identified by the cells it was computed from
Computed(o) == <<-2, ReadCode(o, 1)>>

\* the operands after the computation: the diagonal and the lower triangle
\* of A are destroyed, its strict upper triangle is not referenced, eval
\* (and evec, where there is one) receive the results
EigenWritten(H, A, eval, evec) ==
  [p \in DOMAIN H |->
     IF p = A THEN [H[p] EXCEPT !.data =
                      [k \in 1..Len(H[p].data) |->
                         IF LowerOrDiag(H[p], k) THEN Unknown ELSE H[p].data[k]]]
     ELSE IF p = eval \/ p = evec
       THEN [H[p] EXCEPT !.data = [k \in 1..Len(H[p].data) |-> Computed(H[A])]]
     ELSE H[p]]

\* gsl_eigen_symm / gsl_eigen_symmv / gsl_eigen_herm(A, eval, [evec,] w): st
\* is the outcome of the iteration.  A workspace allocated for more than
\* the dimension of A is accepted (tests eigen_symmetric_vworkspace and
\* eigen_hermitian_workspace: allocated for 3, used on 2 x 2).
gsl_eigen(H, A, eval, evec, w, st) ==
  IF ~Live(H, A) \/ ~Live(H, eval) \/ ~Live(H, w) \/ (evec # NULL /\ ~Live(H, evec))
    THEN [h |-> H, st |-> GSL_SUCCESS, err |-> FALSE]
  ELSE IF \/ H[A].size1 # H[A].size2
          \/ H[eval].size1 # H[A].size1
          \/ (evec # NULL /\ (H[evec].size1 # H[A].size1 \/ H[evec].size2 # H[A].size1))
    THEN [h |-> H, st |-> DimMismatchStatus, err |-> TRUE]
  ELSE IF H[w].size1 < H[A].size1
    THEN [h |-> H, st |-> WorkspaceTooSmallStatus, err |-> TRUE]
  ELSE [h |-> EigenWritten(H, A, eval, evec), st |-> st, err |-> st # GSL_SUCCESS]

\* the native function of a workspace type
EigenFn(alg) == "gsl_eigen_" \o alg

\* Workspace_invoke that hands the native function the transpose of A
Workspace_invoke_transposed(H, self, A, eval, evec, st) ==
  LET T == [H EXCEPT ![A.ptr].data =
              [k \in 1..Len(H[A.ptr].data) |->
                 H[A.ptr].data[((k - 1) % H[A.ptr].size2) * H[A.ptr].size2
                                 + ((k - 1) \div H[A.ptr].size2) + 1]]]
      r == gsl_eigen(T, A.ptr, eval.ptr, evec.ptr, self.ptr, st)
  IN  Res(r.h, Typed(Value_from(r.st)),
          <<NCall(EigenFn(self.elem), <<A.ptr, eval.ptr, evec.ptr, self.ptr>>, r.st, r.err)>>,
          FALSE)

\* Workspace_invoke that maps every status to Success
Workspace_invoke_ignore(H, self, A, eval, evec, st) ==
  LET r == gsl_eigen(H, A.ptr, eval.ptr, evec.ptr, self.ptr, st)
  IN  Res(r.h, Typed("Success"),
          <<NCall(EigenFn(self.elem), <<A.ptr, eval.ptr, evec.ptr, self.ptr>>, r.st, r.err)>>,
          FALSE)

\* Workspace_invoke that releases the workspace when the native call failed
Workspace_invoke_cleanup(H, self, A, eval, evec, st) ==
  LET r == gsl_eigen(H, A.ptr, eval.ptr, evec.ptr, self.ptr, st)
      c == <<NCall(EigenFn(self.elem), <<A.ptr, eval.ptr, evec.ptr, self.ptr>>, r.st, r.err)>>
  IN  IF r.st = GSL_SUCCESS THEN Res(r.h, Typed(Value_from(r.st)), c, FALSE)
      ELSE Res(gsl_free(r.h, self.ptr), Typed(Value_from(r.st)),
               c \o <<NCall("gsl_eigen_free", <<self.ptr>>, 0, FALSE)>>, FALSE)

\* Workspace_invoke that compares the workspace with the matrix itself
Workspace_invoke_checked(H, self, A, eval, evec, st) ==
  IF H[self.ptr].size1 # H[A.ptr].size1 THEN Res(H, Typed("Invalid"), <<>>, FALSE)
  ELSE LET r == gsl_eigen(H, A.ptr, eval.ptr, evec.ptr, self.ptr, st)
       IN  Res(r.h, Typed(Value_from(r.st)),
               <<NCall(EigenFn(self.elem), <<A.ptr, eval.ptr, evec.ptr, self.ptr>>,
                       r.st, r.err)>>,
               FALSE)

\* EigenSymmetricWorkspace::symm, EigenSymmetricVWorkspace::symmv,
\* EigenHermitianWorkspace::herm: Value::from(native call); evec is
\* NoHandle for symm and herm
Workspace_invoke(H, self, A, eval, evec, st) ==
  LET r == gsl_eigen(H, A.ptr, eval.ptr, evec.ptr, self.ptr, st)
  IN  Res(r.h, Typed(Value_from(r.st)),
          <<NCall(EigenFn(self.elem), <<A.ptr, eval.ptr, evec.ptr, self.ptr>>, r.st, r.err)>>,
          ~Live(H, A.ptr) \/ ~Live(H, eval.ptr) \/ ~Live(H, self.ptr)
            \/ (evec.ptr # NULL /\ ~Live(H, evec.ptr)))

\* gsl_eigen_gensymm / gensymmv / genherm / genhermv(A, B, eval, [evec,] w):
\* st is the outcome of the computation; on output B holds its Cholesky
\* decomposition, A is destroyed, eval (and evec) receive the results
gsl_eigen_gen(H, A, B, eval, evec, w, st) ==
  IF ~Live(H, A) \/ ~Live(H, B) \/ ~Live(H, eval) \/ ~Live(H, w)
       \/ (evec # NULL /\ ~Live(H, evec))
    THEN [h |-> H, st |-> GSL_SUCCESS, err |-> FALSE]
  ELSE IF \/ H[A].size1 # H[A].size2
          \/ H[B].size1 # H[A].size1 \/ H[B].size2 # H[A].size1
          \/ H[eval].size1 # H[A].size1
          \/ H[w].size1 # H[A].size1
          \/ (evec # NULL /\ (H[evec].size1 # H[A].size1 \/ H[evec].size2 # H[A].size1))
    THEN [h |-> H, st |-> DimMismatchStatus, err |-> TRUE]
  ELSE [h |-> [p \in DOMAIN H |->
                 IF p \in {A, B, eval} \/ (evec # NULL /\ p = evec)
                   THEN [H[p] EXCEPT !.data = [k \in 1..Len(H[p].data) |-> Unknown]]
                   ELSE H[p]],
        st |-> st, err |-> st # GSL_SUCCESS]

\* Workspace_gen_invoke with A taken by reference: nothing is released
Workspace_gen_invoke_borrowed(H, self, A, B, eval, evec, st) ==
  LET r == gsl_eigen_gen(H, A.ptr, B.ptr, eval.ptr, evec.ptr, self.ptr, st)
  IN  Res(r.h, Typed(Value_from(r.st)),
          <<NCall(EigenFn(self.elem), <<A.ptr, B.ptr, eval.ptr, evec.ptr, self.ptr>>,
                  r.st, r.err)>>,
          FALSE)

\* EigenGenSymmWorkspace::gensymm, EigenGenSymmVWorkspace::gensymmv,
\* EigenGenHermWorkspace::genherm, EigenGenHermVWorkspace::genhermv: A is
\* taken by value, so it goes out of scope when the method returns
Workspace_gen_invoke(H, self, A, B, eval, evec, st) ==
  LET r == gsl_eigen_gen(H, A.ptr, B.ptr, eval.ptr, evec.ptr, self.ptr, st)
      d == Container_drop(r.h, A)
  IN  Res(d.h, Typed(Value_from(r.st)),
          <<NCall(EigenFn(self.elem), <<A.ptr, B.ptr, eval.ptr, evec.ptr, self.ptr>>,
                  r.st, r.err)>> \o d.calls,
          ~Live(H, A.ptr) \/ ~Live(H, B.ptr) \/ ~Live(H, eval.ptr) \/ ~Live(H, self.ptr)
            \/ (evec.ptr # NULL /\ ~Live(H, evec.ptr)))

\* ------------------------------------------------------------ bookkeeping
FreeFns == {"gsl_vector_free", "gsl_matrix_free", "gsl_eigen_free"}
AllocFns == {"gsl_vector_calloc", "gsl_vector_alloc", "gsl_matrix_calloc",
             "gsl_matrix_alloc", "gsl_eigen_alloc"}

CountFrees(cs, p) ==
  Cardinality({i \in 1..Len(cs) : cs[i].fn \in FreeFns /\ cs[i].args[1] = p})

HasErr(cs) == \E i \in 1..Len(cs) : cs[i].err

FirstErr(cs) == SetMin({i \in 1..Len(cs) : cs[i].err})

\* the calls made until the handler aborted the process
UpToErr(cs) == SubSeq(cs, 1, FirstErr(cs))

Running == ~crashed /\ ~ub

\* Completes an operation: r is what the wrapper computed, s the variable a
\* returned handle is bound to, dropped the variables whose values went out
\* of scope during the operation.  If a native call invoked the error
\* handler and the handler aborts, the process ends at that call.
Finish(op, self, other, args, r, s, dropped) ==
  /\ call' = [op |-> op, self |-> self, other |-> other, args |-> args]
  /\ UNCHANGED <<handler, prec>>
  /\ IF HasErr(r.calls) /\ handler = "abort"
       THEN /\ crashed' = TRUE
            /\ calls' = UpToErr(r.calls)
            /\ ret' = Aborted
            /\ UNCHANGED <<heap, handles, freeCount, ub, clonedFrom>>
       ELSE /\ crashed' = FALSE
            /\ calls' = r.calls
            /\ ret' = r.ret
            /\ ub' = r.ub
            /\ heap' = r.h
            /\ freeCount' = [p \in DOMAIN freeCount |-> freeCount[p] + CountFrees(r.calls, p)]
            /\ handles' = [x \in DOMAIN handles |->
                 IF x = s /\ r.ret.tag = "Some" THEN r.ret.hd
                 ELSE IF x \in dropped THEN NoHandle
                 ELSE handles[x]]
            /\ clonedFrom' = [x \in DOMAIN clonedFrom |->
                 IF x = s /\ r.ret.tag = "Some" THEN (IF op = "clone" THEN self ELSE 0)
                 ELSE IF x \in dropped \/ clonedFrom[x] \in dropped THEN 0
                 ELSE clonedFrom[x]]

\* the call record before the first operation
NoCall == [op |-> "start", self |-> 0, other |-> 0, args |-> <<>>]

\* ---------------------------------------------------------------- actions
VectorNew ==
  \E size \in Dims, tmp \in AllocOutcomes(heap) :
    /\ Running /\ DestSlot # 0
    /\ Finish("new", 0, 0, <<size>>, Vector_new(heap, prec, size, tmp), DestSlot, {})
    /\ UNCHANGED <<raw, nops, prev>>

MatrixNew ==
  \E n1 \in Dims, n2 \in Dims, tmp \in AllocOutcomes(heap) :
    /\ Running /\ DestSlot # 0
    /\ Finish("new", 0, 0, <<n1, n2>>, Matrix_new(heap, prec, n1, n2, tmp), DestSlot, {})
    /\ UNCHANGED <<raw, nops, prev>>

WorkspaceNew ==
  \E alg \in WsTypes, n \in Dims, tmp \in AllocOutcomes(heap) :
    /\ Running /\ DestSlot # 0
    /\ Finish("new", 0, 0, <<n>>, Workspace_new(heap, alg, n, tmp), DestSlot, {})
    /\ UNCHANGED <<raw, nops, prev>>

Slices(e) == UNION {[1..n -> ElemVals(e)] : n \in Dims}

FromSlice ==
  \E slice \in Slices(prec), tmp \in AllocOutcomes(heap) :
    /\ Running /\ DestSlot # 0
    /\ Finish("from_slice", 0, 0, <<slice>>, Vector_from_slice(heap, prec, slice, tmp), DestSlot, {})
    /\ UNCHANGED <<raw, nops, prev>>

Clone ==
  \E s \in VecSlots \cup MatSlots, tmp \in AllocOutcomes(heap) :
    /\ Running /\ DestSlot # 0
    /\ Finish("clone", s, 0, <<>>,
              IF handles[s].kind = "vec" THEN Vector_clone(heap, handles[s], tmp)
              ELSE Matrix_clone(heap, handles[s], tmp),
              DestSlot, {})
    /\ UNCHANGED <<raw, nops, prev>>

GetRow ==
  \E s \in MatSlots, y \in Dims, tmp \in AllocOutcomes(heap) :
    /\ Running /\ DestSlot # 0
    /\ Finish("get_row", s, 0, <<y>>, Matrix_get_row(heap, handles[s], y, tmp), DestSlot, {})
    /\ UNCHANGED <<raw, nops, prev>>

GetCol ==
  \E s \in MatSlots, x \in Dims, tmp \in AllocOutcomes(heap) :
    /\ Running /\ DestSlot # 0
    /\ Finish("get_col", s, 0, <<x>>, Matrix_get_col(heap, handles[s], x, tmp), DestSlot, {})
    /\ UNCHANGED <<raw, nops, prev>>

TransposeMemcpy ==
  \E s \in MatSlots, tmp \in AllocOutcomes(heap) :
    /\ Running /\ DestSlot # 0
    /\ Finish("transpose_memcpy", s, 0, <<>>,
              Matrix_transpose_memcpy(heap, handles[s], tmp),
              DestSlot, {})
    /\ UNCHANGED <<raw, nops, prev>>

VecSet ==
  \E s \in VecSlots, i \in Dims, x \in ElemVals(prec) :
    /\ Running
    /\ Finish("set", s, 0, <<i, x>>, Vector_set(heap, handles[s], i, x), 0, {})
    /\ UNCHANGED <<raw, nops, prev>>

MatSet ==
  \E s \in MatSlots, y \in Dims, x \in Dims, v \in ElemVals(prec) :
    /\ Running
    /\ Finish("set", s, 0, <<y, x, v>>, Matrix_set(heap, handles[s], y, x, v), 0, {})
    /\ UNCHANGED <<raw, nops, prev>>

GetFfi ==
  \E s \in VecSlots \cup MatSlots :
    /\ Running
    /\ Finish("get_ffi", s, 0, <<>>, get_ffi(heap, handles[s]), 0, {})
    /\ raw' = handles[s].ptr
    /\ UNCHANGED <<nops, prev>>

\* a handle value goes out of scope
Drop ==
  \E s \in LiveSlots :
    /\ Running
    /\ Finish("drop", s, 0, <<>>,
              IF handles[s].kind = "ws" THEN Workspace_drop(heap, handles[s])
              ELSE Container_drop(heap, handles[s]),
              0, {s})
    /\ UNCHANGED <<raw, nops, prev>>

Init ==
  /\ heap = [p \in Ptr |-> NoObj]
  /\ handles = [s \in Slots |-> NoHandle]
  /\ freeCount = [p \in Ptr |-> 0]
  /\ raw = NULL
  /\ call = NoCall
  /\ prev = NoCall
  /\ clonedFrom = [s \in Slots |-> 0]
  /\ ret = Unit
  /\ calls = <<>>
  /\ prec \in ElemTypes
  /\ handler \in {"abort", "off"}
  /\ crashed = FALSE
  /\ ub = FALSE
  /\ nops = 0

Next ==
  \/ VectorNew
  \/ MatrixNew
  \/ WorkspaceNew
  \/ FromSlice
  \/ Clone
  \/ GetRow
  \/ GetCol
  \/ TransposeMemcpy
  \/ VecSet
  \/ MatSet
  \/ GetFfi
  \/ Drop

Spec == Init /\ [][Next]_vars

\* ------------------------------------------------------ element scenarios
\* Scenarios that start from one container a, or two containers a and b of
\* the same type, already built by new and filled by set, and perform up
\* to MaxOps element operations on them.
Sizes == 1..(MaxDim + 1)
Idx == 0..(MaxDim + 1)
ElemOf(e, v) == IF IsComplex(e) THEN <<v, MaxVal - v>> ELSE <<v, 0>>
\* element k holds the value (k + seed) mod (MaxVal + 1)
Pattern(e, n, seed) == [k \in 1..n |-> ElemOf(e, (k + seed) % (MaxVal + 1))]

SameDims(H, a, b) ==
  H[a.ptr].size1 = H[b.ptr].size1 /\ H[a.ptr].size2 = H[b.ptr].size2

Counted == nops < MaxOps /\ nops' = nops + 1 /\ prev' = call /\ UNCHANGED raw

ElemSet ==
  \E s \in VecSlots \cup MatSlots, y \in Idx, x \in Idx, v \in ElemVals(prec) :
    /\ Running /\ Counted
    /\ IF handles[s].kind = "vec"
         THEN /\ x = 0
              /\ Finish("set", s, 0, <<y, v>>, Vector_set(heap, handles[s], y, v), 0, {})
         ELSE Finish("set", s, 0, <<y, x, v>>, Matrix_set(heap, handles[s], y, x, v), 0, {})

ElemGet ==
  \E s \in VecSlots \cup MatSlots, y \in Idx, x \in Idx, junk \in ElemVals(prec) :
    /\ Running /\ Counted
    /\ IF handles[s].kind = "vec"
         THEN /\ x = 0
              /\ Finish("get", s, 0, <<y>>, Vector_get(heap, handles[s], y, junk), 0, {})
         ELSE Finish("get", s, 0, <<y, x>>, Matrix_get(heap, handles[s], y, x, junk), 0, {})

\* a.o(b) for two containers of the same type; a division is taken only
\* where every quotient is a pair of integers.  MatrixComplexF32::
\* div_elements takes a MatrixF32, which these scenarios do not hold.
BinaryOp(o) ==
  \E s \in VecSlots \cup MatSlots, t \in VecSlots \cup MatSlots :
    /\ Running /\ Counted
    /\ s # t /\ handles[s].kind = handles[t].kind
    /\ ~(o = "div" /\ handles[s].kind = "mat" /\ handles[s].elem = "CF32")
    /\ (o = "div" /\ SameDims(heap, handles[s], handles[t])) =>
         \A k \in 1..Len(heap[handles[s].ptr].data) :
           ExactDiv(heap[handles[s].ptr].data[k], heap[handles[t].ptr].data[k])
    /\ Finish(o, s, t, <<>>,
              Elementwise(heap, handles[s].kind, o, handles[s], handles[t]), 0, {})

ElemAdd == BinaryOp("add")
ElemSub == BinaryOp("sub")
ElemMul == BinaryOp("mul")
ElemDiv == BinaryOp("div")

ElemClone ==
  \E s \in VecSlots \cup MatSlots, tmp \in AllocOutcomes(heap) :
    /\ Running /\ Counted /\ DestSlot # 0
    /\ Finish("clone", s, 0, <<>>,
              IF handles[s].kind = "vec" THEN Vector_clone(heap, handles[s], tmp)
              ELSE Matrix_clone(heap, handles[s], tmp),
              DestSlot, {})

InitElem ==
  \E k \in {"vec", "mat"}, a1 \in Sizes, a2 \in Sizes, b1 \in {0} \cup Sizes, b2 \in Sizes,
     sa \in Vals, sb \in Vals :
    /\ prec \in ElemTypes
    /\ handler \in {"abort", "off"}
    /\ k = "vec" => (a2 = 1 /\ b2 = 1)
    /\ b1 = 0 => (b2 = 1 /\ sb = 0)
    /\ heap = [p \in Ptr |->
         IF p = 1 THEN Obj(k, prec, a1, a2, Pattern(prec, a1 * a2, sa))
         ELSE IF p = 2 /\ b1 > 0 THEN Obj(k, prec, b1, b2, Pattern(prec, b1 * b2, sb))
         ELSE NoObj]
    /\ handles = [s \in Slots |->
         IF s = 1 \/ (s = 2 /\ b1 > 0) THEN Handle(k, prec, s) ELSE NoHandle]
    /\ freeCount = [p \in Ptr |-> 0]
    /\ raw = NULL
    /\ call = NoCall
    /\ prev = NoCall
    /\ clonedFrom = [s \in Slots |-> 0]
    /\ ret = Unit
    /\ calls = <<>>
    /\ crashed = FALSE
    /\ ub = FALSE
    /\ nops = 0

NextElem ==
  \/ ElemSet
  \/ ElemGet
  \/ ElemAdd
  \/ ElemSub
  \/ ElemMul
  \/ ElemDiv
  \/ ElemClone

SpecElem == InitElem /\ [][NextElem]_vars

\* ------------------------------------------- bulk and query scenarios
\* Two steps on one or two filled containers of the same type, as in the
\* element scenarios: bulk writes, copies, exchanges, row and column
\* transfers, transposition and the reduction queries.
TwoOf(s, t) == s # t /\ handles[s].kind = handles[t].kind

BulkSetAll ==
  \E s \in VecSlots \cup MatSlots, v \in ElemVals(prec) :
    /\ Running /\ Counted
    /\ Finish("set_all", s, 0, <<v>>, Container_set_all(heap, handles[s], v), 0, {})

BulkSetZero ==
  \E s \in VecSlots \cup MatSlots :
    /\ Running /\ Counted
    /\ Finish("set_zero", s, 0, <<>>, Container_set_zero(heap, handles[s]), 0, {})

BulkSetBasis ==
  \E s \in VecSlots, i \in Idx :
    /\ Running /\ Counted
    /\ Finish("set_basis", s, 0, <<i>>, Vector_set_basis(heap, handles[s], i), 0, {})

BulkSetIdentity ==
  \E s \in MatSlots :
    /\ Running /\ Counted
    /\ Finish("set_identity", s, 0, <<>>, Matrix_set_identity(heap, handles[s]), 0, {})

BulkCopyFrom ==
  \E s \in VecSlots \cup MatSlots, t \in VecSlots \cup MatSlots :
    /\ Running /\ Counted /\ TwoOf(s, t)
    /\ Finish("copy_from", s, t, <<>>,
              IF handles[s].kind = "vec" THEN Vector_copy_from(heap, handles[s], handles[t])
              ELSE Matrix_copy_from(heap, handles[s], handles[t]), 0, {})

BulkCopyTo ==
  \E s \in VecSlots \cup MatSlots, t \in VecSlots \cup MatSlots :
    /\ Running /\ Counted /\ TwoOf(s, t)
    /\ Finish("copy_to", s, t, <<>>, Container_copy_to(heap, handles[s], handles[t]), 0, {})

BulkSwap ==
  \E s \in VecSlots \cup MatSlots, t \in VecSlots \cup MatSlots :
    /\ Running /\ Counted /\ TwoOf(s, t)
    /\ Finish("swap", s, t, <<>>, Container_swap(heap, handles[s], handles[t]), 0, {})

BulkReverse ==
  \E s \in VecSlots :
    /\ Running /\ Counted
    /\ Finish("reverse", s, 0, <<>>, Vector_reverse(heap, handles[s]), 0, {})

BulkTranspose ==
  \E s \in MatSlots :
    /\ Running /\ Counted
    /\ Finish("transpose", s, 0, <<>>, Matrix_transpose(heap, handles[s]), 0, {})

BulkSetRow ==
  \E s \in MatSlots, v \in VecSlots, y \in Idx :
    /\ Running /\ Counted
    /\ Finish("set_row", s, v, <<y>>, Matrix_set_row(heap, handles[s], y, handles[v]), 0, {})

BulkSetCol ==
  \E s \in MatSlots, v \in VecSlots, x \in Idx :
    /\ Running /\ Counted
    /\ Finish("set_col", s, v, <<x>>, Matrix_set_col(heap, handles[s], x, handles[v]), 0, {})

BulkGetRow ==
  \E s \in MatSlots, y \in Idx, tmp \in AllocOutcomes(heap) :
    /\ Running /\ Counted /\ DestSlot # 0
    /\ Finish("get_row", s, 0, <<y>>, Matrix_get_row(heap, handles[s], y, tmp), DestSlot, {})

BulkGetCol ==
  \E s \in MatSlots, x \in Idx, tmp \in AllocOutcomes(heap) :
    /\ Running /\ Counted /\ DestSlot # 0
    /\ Finish("get_col", s, 0, <<x>>, Matrix_get_col(heap, handles[s], x, tmp), DestSlot, {})

BulkTransposeMemcpy ==
  \E s \in MatSlots, tmp \in AllocOutcomes(heap) :
    /\ Running /\ Counted /\ DestSlot # 0
    /\ Finish("transpose_memcpy", s, 0, <<>>,
              Matrix_transpose_memcpy(heap, handles[s], tmp), DestSlot, {})

BulkQuery ==
  \E s \in VecSlots \cup MatSlots, q \in Queries, junk \in ElemVals(prec) :
    /\ Running /\ Counted
    /\ q \in OrderQueries => ~IsComplex(prec)
    /\ Finish(q, s, 0, <<>>, QueryOf(heap, q, handles[s], junk), 0, {})

BulkEqual ==
  \E s \in VecSlots \cup MatSlots, t \in VecSlots \cup MatSlots, junk \in ElemVals(prec) :
    /\ Running /\ Counted /\ TwoOf(s, t)
    /\ Finish("equal", s, t, <<>>, Container_equal(heap, handles[s], handles[t], junk), 0, {})

BulkLen ==
  \E s \in VecSlots :
    /\ Running /\ Counted
    /\ Finish("len", s, 0, <<>>,
              Res(heap, Tuple(<<Vector_len(heap, handles[s])>>), <<>>, FALSE), 0, {})

NextBulk ==
  \/ BulkSetAll
  \/ BulkSetZero
  \/ BulkSetBasis
  \/ BulkSetIdentity
  \/ BulkCopyFrom
  \/ BulkCopyTo
  \/ BulkSwap
  \/ BulkReverse
  \/ BulkTranspose
  \/ BulkSetRow
  \/ BulkSetCol
  \/ BulkGetRow
  \/ BulkGetCol
  \/ BulkTransposeMemcpy
  \/ BulkQuery
  \/ BulkEqual
  \/ BulkLen

SpecBulk == InitElem /\ [][NextBulk]_vars

\* -------------------------------------------------------- eigen scenarios
\* Scenarios that start from a workspace allocated for n by new(n) and the
\* operands of its algorithm, built by new and filled by set: an m x m
\* matrix A, a vector eval of length m and, for symmv, an m x m matrix evec.
InvokeAlgs == {"symm", "symmv", "herm"}
WsSizes == 1..(MaxDim + 2)
EigenPtr == 1..(MaxAllocs + 2)
\* the codes the native iteration may end with
NativeCodes == (0 - 1)..MaxCode

WsSlots == {s \in LiveSlots : handles[s].kind = "ws"}

EigenInvoke ==
  \E w \in WsSlots, st \in NativeCodes :
    /\ Running /\ Counted
    /\ handles[1] # NoHandle /\ handles[2] # NoHandle
    /\ handles[w].elem = "symmv" => handles[3] # NoHandle
    /\ Finish("invoke", w, 1, <<st>>,
              Workspace_invoke(heap, handles[w], handles[1], handles[2],
                               IF handles[w].elem = "symmv" THEN handles[3] ELSE NoHandle, st),
              0, {})

EigenDrop ==
  \E s \in LiveSlots :
    /\ Running /\ Counted
    /\ Finish("drop", s, 0, <<>>,
              IF handles[s].kind = "ws" THEN Workspace_drop(heap, handles[s])
              ELSE Container_drop(heap, handles[s]),
              0, {s})

InitEigen ==
  \E alg \in InvokeAlgs, n \in WsSizes, m \in Sizes, sa \in Vals :
    /\ prec = (IF alg = "herm" THEN "CF64" ELSE "F64")
    /\ handler \in {"abort", "off"}
    /\ heap = [p \in EigenPtr |->
         CASE p = 1 -> Obj("mat", prec, m, m, Pattern(prec, m * m, sa))
           [] p = 2 -> Obj("vec", "F64", m, 1, Fill(m, Zero))
           [] p = 3 /\ alg = "symmv" -> Obj("mat", "F64", m, m, Fill(m * m, Zero))
           [] p = 4 -> Obj("ws", alg, n, n, <<>>)
           [] OTHER -> NoObj]
    /\ handles = [s \in EigenPtr |->
         CASE s = 1 -> Handle("mat", prec, 1)
           [] s = 2 -> Handle("vec", "F64", 2)
           [] s = 3 /\ alg = "symmv" -> Handle("mat", "F64", 3)
           [] s = 4 -> Handle("ws", alg, 4)
           [] OTHER -> NoHandle]
    /\ freeCount = [p \in EigenPtr |-> 0]
    /\ raw = NULL
    /\ call = NoCall
    /\ prev = NoCall
    /\ clonedFrom = [s \in EigenPtr |-> 0]
    /\ ret = Unit
    /\ calls = <<>>
    /\ crashed = FALSE
    /\ ub = FALSE
    /\ nops = 0

NextEigen ==
  \/ EigenInvoke
  \/ EigenDrop

SpecEigen == InitEigen /\ [][NextEigen]_vars

\* ------------------------------------------- generalized eigen scenarios
\* Scenarios that start from a workspace of a generalized algorithm
\* allocated for m and its operands: m x m matrices A and B, a vector eval
\* of length m and, for gensymmv and genhermv, an m x m matrix evec.
GenAlgs == {"gensymm", "gensymmv", "genherm", "genhermv"}
HasEvec(alg) == alg \in {"symmv", "gensymmv", "genhermv"}
GenPtr == 1..(MaxAllocs + 3)

GenInvoke ==
  \E w \in WsSlots, st \in NativeCodes :
    /\ Running /\ Counted
    /\ handles[w].elem \in GenAlgs
    /\ handles[1] # NoHandle /\ handles[2] # NoHandle /\ handles[5] # NoHandle
    /\ HasEvec(handles[w].elem) => handles[3] # NoHandle
    /\ Finish("gen_invoke", w, 1, <<st>>,
              Workspace_gen_invoke(heap, handles[w], handles[1], handles[5], handles[2],
                                   IF HasEvec(handles[w].elem) THEN handles[3] ELSE NoHandle,
                                   st),
              0, {1})

InitGen ==
  \E alg \in GenAlgs, m \in Sizes, sa \in Vals :
    /\ prec = (IF alg \in {"genherm", "genhermv"} THEN "CF64" ELSE "F64")
    /\ handler \in {"abort", "off"}
    /\ heap = [p \in GenPtr |->
         CASE p = 1 -> Obj("mat", prec, m, m, Pattern(prec, m * m, sa))
           [] p = 2 -> Obj("vec", "F64", m, 1, Fill(m, Zero))
           [] p = 3 /\ HasEvec(alg) -> Obj("mat", prec, m, m, Fill(m * m, Zero))
           [] p = 4 -> Obj("ws", alg, m, m, <<>>)
           [] p = 5 -> Obj("mat", prec, m, m, Pattern(prec, m * m, sa))
           [] OTHER -> NoObj]
    /\ handles = [s \in GenPtr |->
         CASE s = 1 -> Handle("mat", prec, 1)
           [] s = 2 -> Handle("vec", "F64", 2)
           [] s = 3 /\ HasEvec(alg) -> Handle("mat", prec, 3)
           [] s = 4 -> Handle("ws", alg, 4)
           [] s = 5 -> Handle("mat", prec, 5)
           [] OTHER -> NoHandle]
    /\ freeCount = [p \in GenPtr |-> 0]
    /\ raw = NULL
    /\ call = NoCall
    /\ prev = NoCall
    /\ clonedFrom = [s \in GenPtr |-> 0]
    /\ ret = Unit
    /\ calls = <<>>
    /\ crashed = FALSE
    /\ ub = FALSE
    /\ nops = 0

NextGen ==
  \/ GenInvoke
  \/ EigenDrop

SpecGen == InitGen /\ [][NextGen]_vars

\* ------------------------------------------------------------------ claims
Owners(p) == {s \in LiveSlots : handles[s].ptr = p}

YieldsHandle == {"new", "from_slice", "clone", "get_row", "get_col", "transpose_memcpy"}

\* C1: every native allocation that was obtained is passed to its matching
\* native free function exactly once, when its owner goes out of scope: it
\* is unfreed while an owner is in scope, freed once when none is left, and
\* never freed twice.  A successful new makes one native call, the
\* allocation, and a drop makes one native call, the matching free.
FreedExactlyOnce ==
  /\ \A p \in Ptr :
       /\ freeCount[p] <= 1
       /\ (freeCount[p] = 1) <=> (heap[p].st = "freed")
       /\ heap[p].st = "unalloc" => Owners(p) = {}
       /\ heap[p].st # "unalloc" => ((Owners(p) = {}) <=> (freeCount[p] = 1))
  /\ call.op = "drop" =>
       /\ Len(calls) = 1
       /\ calls[1].fn = FreeFn(heap[calls[1].args[1]].kind)
  /\ (call.op = "new" /\ ret.tag = "Some") =>
       /\ Len(calls) = 1
       /\ calls[1].fn \in AllocFns

\* C1 witness: a container allocated with a positive dimension has been
\* dropped and freed once while another container is still owned
FreedExactlyOnceWitness ==
  /\ call.op = "drop"
  /\ \E p \in Ptr, q \in Ptr :
       /\ heap[p].st = "freed" /\ heap[p].kind \in {"vec", "mat"} /\ freeCount[p] = 1
       /\ Live(heap, q) /\ heap[q].size1 > 0 /\ Owners(q) # {} /\ freeCount[q] = 0

\* C2: no native function is ever called with, and no caller ever holds, a
\* pointer to an allocation that has been freed, the pointer returned by
\* get_ffi included
NoUseAfterRelease ==
  /\ ~ub
  /\ \A s \in LiveSlots : Live(heap, handles[s].ptr)
  /\ raw # NULL => Live(heap, raw)

\* C3: no two handles in scope hold the same native pointer, and every
\* operation that yields a handle wraps the object it has just allocated
ExclusiveOwnership ==
  /\ \A s1 \in LiveSlots, s2 \in LiveSlots : s1 # s2 => handles[s1].ptr # handles[s2].ptr
  /\ (call.op \in YieldsHandle /\ ret.tag = "Some") =>
       /\ Len(calls) >= 1
       /\ calls[1].fn \in AllocFns
       /\ calls[1].res = ret.hd.ptr
       /\ Owners(ret.hd.ptr) = {s \in Slots : handles[s] = ret.hd}
       /\ Cardinality(Owners(ret.hd.ptr)) = 1

\* C3 witness: a clone has succeeded and both the original and the copy are
\* in scope
ExclusiveOwnershipWitness ==
  /\ call.op = "clone" /\ ret.tag = "Some"
  /\ handles[call.self] # NoHandle
  /\ Cardinality(LiveSlots) = 2

\* C4: new returns None exactly when the native allocator returned null;
\* otherwise the handle wraps the pointer the allocator returned; no handle
\* holds a null pointer
NewNoneIffNull ==
  /\ \A s \in LiveSlots : handles[s].ptr # NULL
  /\ call.op = "new" =>
       /\ Len(calls) = 1
       /\ calls[1].fn \in AllocFns
       /\ (ret.tag = "None") <=> (calls[1].res = NULL)
       /\ calls[1].res # NULL =>
            /\ ret.tag = "Some"
            /\ ret.hd.ptr = calls[1].res
            /\ \E s \in LiveSlots : handles[s] = ret.hd

\* C4 witness: the allocator returned null to a new while an earlier new
\* had succeeded
NewNoneIffNullWitness ==
  /\ call.op = "new" /\ ret.tag = "None" /\ calls[1].res = NULL
  /\ \E s \in LiveSlots : handles[s].kind = "vec"

\* C5: a constructor never invokes the native allocator with a dimension
\* equal to 0
AllocatorNeverGetsZero ==
  call.op = "new" =>
    \A i \in 1..Len(calls) :
      calls[i].fn \in AllocFns => \A k \in 1..Len(calls[i].args) : calls[i].args[k] # 0

Mutators == {"set", "add", "sub", "mul", "div"}

\* C6: a clone holds a different native allocation than its original, and
\* a mutating operation applied to the clone leaves the original's native
\* object unchanged, as one applied to the original leaves the clone's
CloneIsolation ==
  [][\A c \in Slots :
       clonedFrom[c] # 0 =>
         LET v == clonedFrom[c]
         IN  /\ handles[c].ptr # handles[v].ptr
             /\ (call'.op \in Mutators /\ call'.self = c) =>
                  /\ heap'[handles[v].ptr] = heap[handles[v].ptr]
                  /\ handles'[v] = handles[v]
             /\ (call'.op \in Mutators /\ call'.self = v) =>
                  /\ heap'[handles[c].ptr] = heap[handles[c].ptr]
                  /\ handles'[c] = handles[c]]_vars

\* C6 witness: a set on a clone has changed the clone, whose elements now
\* differ from its original's
CloneIsolationWitness ==
  \E c \in Slots :
    /\ clonedFrom[c] # 0
    /\ call.op = "set" /\ call.self = c /\ ~crashed
    /\ handles[c].kind = "mat"
    /\ heap[handles[c].ptr].data # heap[handles[clonedFrom[c]].ptr].data

\* C7: clone returns None when the allocation of the copy failed, and
\* otherwise a handle of the same type and dimensions as the original, all
\* of whose elements equal the original's; the original is unchanged
CloneCopiesAll ==
  [][call'.op = "clone" =>
       LET v == handles[call'.self]
       IN  /\ ~crashed'
           /\ heap'[v.ptr] = heap[v.ptr]
           /\ handles'[call'.self] = v
           /\ (ret'.tag = "None") <=> (calls'[1].res = NULL)
           /\ ret'.tag = "Some" =>
                /\ ret'.hd.kind = v.kind /\ ret'.hd.elem = v.elem
                /\ heap'[ret'.hd.ptr] = heap[v.ptr]
                /\ \A k \in 1..Len(heap[v.ptr].data) :
                     heap'[ret'.hd.ptr].data[k] # Uninit]_vars

\* C7 witness: a clone of a container of more than one element, not all
\* zero, has succeeded
CloneCopiesAllWitness ==
  /\ call.op = "clone" /\ ret.tag = "Some"
  /\ heap[ret.hd.ptr].size1 > 1
  /\ \E k \in 1..Len(heap[ret.hd.ptr].data) : heap[ret.hd.ptr].data[k] # Zero

ValidIndex(o, args) ==
  IF o.kind = "vec" THEN InRange(o, args[1]) ELSE InRange2(o, args[1], args[2])

\* C8: a get that directly follows a set on the same container at the same
\* valid index returns the value that was set
SetGetRoundTrip ==
  [][(/\ call.op = "set" /\ call'.op = "get" /\ call'.self = call.self
      /\ SubSeq(call.args, 1, Len(call.args) - 1) = call'.args
      /\ ValidIndex(heap[handles[call.self].ptr], call'.args))
     => /\ ~crashed'
        /\ ret' = Elem(call.args[Len(call.args)])]_vars

\* C8 witness: a get on a matrix has returned the non-zero value that the
\* operation before it set at the same valid index
SetGetRoundTripWitness ==
  /\ call.op = "get" /\ prev.op = "set" /\ prev.self = call.self
  /\ SubSeq(prev.args, 1, Len(prev.args) - 1) = call.args
  /\ handles[call.self].kind = "mat"
  /\ ValidIndex(heap[handles[call.self].ptr], call.args)
  /\ call.args[2] > 0
  /\ ret = Elem(prev.args[Len(prev.args)])
  /\ ret.val # Zero

NativeElementwise ==
  {"gsl_vector_add", "gsl_vector_sub", "gsl_vector_mul", "gsl_vector_div",
   "gsl_matrix_add", "gsl_matrix_sub", "gsl_matrix_mul_elements", "gsl_matrix_div_elements"}

Fallible == {"add", "sub", "mul", "div", "copy_from", "copy_to", "swap", "reverse",
             "transpose", "invoke"}

\* C11: every operation that can fail returns the typed status, a member of
\* the closed enumeration, and never a raw integer
TypedStatusReturned ==
  (call.op \in Fallible /\ ~crashed) => ret.tag = "Value"

Documented ==
  {GSL_SUCCESS, GSL_EDOM, GSL_ERANGE, GSL_EINVAL, GSL_ENOMEM, GSL_EMAXITER,
   GSL_EUNDRFLW, GSL_EOVRFLW}

Kinds == {"Success", "Domain", "Range", "Invalid", "NoMemory", "MaxIteration",
          "UnderFlow", "OverFlow", "Failure"}

\* C12: an eigen workspace operation returns a member of the enumeration
\* for every code its native call returns: Success exactly for zero, its
\* own kind for each documented code, different codes giving different
\* kinds, and the generic failure for every other integer
StatusMappingTotal ==
  (call.op = "invoke" /\ ~crashed) =>
    /\ Len(calls) = 1
    /\ ret.tag = "Value"
    /\ ret.kind \in Kinds
    /\ (ret.kind = "Success") <=> (calls[1].res = GSL_SUCCESS)
    /\ (ret.kind = "Failure") <=> (calls[1].res \notin Documented)
    /\ \A c \in Documented : (ret.kind = Value_from(c)) <=> (calls[1].res = c)

\* C12 witness: an invocation whose native call returned a code that is not
\* a documented one has returned the generic failure
StatusMappingTotalWitness ==
  /\ call.op = "invoke" /\ ~crashed
  /\ calls[1].res \notin Documented /\ calls[1].res > 0
  /\ ret = Typed("Failure")

\* C15: an invocation is made on a live workspace only, and whatever status
\* it returns it leaves the workspace handle and the native workspace, with
\* the size it was allocated for, as they were; it allocates and frees
\* nothing
WorkspaceStaysReady ==
  [][call'.op = "invoke" =>
       LET w == handles[call'.self]
       IN  /\ w.kind = "ws" /\ Live(heap, w.ptr)
           /\ handles'[call'.self] = w
           /\ heap'[w.ptr] = heap[w.ptr]
           /\ \A i \in 1..Len(calls') : calls'[i].fn \notin (AllocFns \cup FreeFns)]_vars

\* C15 witness: a workspace has been invoked twice in a row, the second
\* invocation returned an error status, and the workspace is still live
\* and sized as allocated
WorkspaceStaysReadyWitness ==
  /\ call.op = "invoke" /\ prev.op = "invoke" /\ prev.self = call.self
  /\ ~crashed /\ ret.kind = "MaxIteration"
  /\ Live(heap, handles[call.self].ptr)
  /\ heap[handles[call.self].ptr].size1 = MaxDim + 2

\* C16 as stated: an invocation of a workspace allocated for n on a matrix
\* of another dimension returns the invalid-argument status
MismatchedWorkspaceRejected ==
  (/\ call.op = "invoke" /\ handler = "off"
   /\ heap[handles[call.self].ptr].size1 # heap[handles[call.other].ptr].size1)
  => ret = Typed("Invalid")

\* C16 amended: the wrapper makes no dimension check: it makes the one
\* native call with the operands' pointers and returns Value::from of its
\* status; the native library accepts a workspace allocated for more than
\* the matrix dimension, runs the computation, and Success is returned
\* when the computation succeeds
LargerWorkspaceAccepted ==
  call.op = "invoke" =>
    LET w == heap[handles[call.self].ptr]
        A == heap[handles[call.other].ptr]
    IN  /\ Len(calls) = 1
        /\ calls[1].fn = EigenFn(handles[call.self].elem)
        /\ calls[1].args[1] = handles[call.other].ptr
        /\ calls[1].args[4] = handles[call.self].ptr
        /\ ~crashed => ret = Typed(Value_from(calls[1].res))
        /\ w.size1 >= A.size1 => calls[1].res = call.args[1]
        /\ (w.size1 >= A.size1 /\ call.args[1] = GSL_SUCCESS) =>
             ~crashed /\ ret = Typed("Success")

\* C16 witness: symmv on a workspace allocated for 3 and a 2 x 2 matrix has
\* returned Success under the aborting handler
LargerWorkspaceAcceptedWitness ==
  /\ call.op = "invoke" /\ handler = "abort" /\ ~crashed
  /\ handles[call.self].elem = "symmv"
  /\ heap[handles[call.self].ptr].size1 = 3
  /\ heap[handles[call.other].ptr].size1 = 2
  /\ ret = Typed("Success")

\* native functions whose return value is not a status
ValueFns == {"gsl_vector_get", "gsl_vector_set", "gsl_matrix_get", "gsl_matrix_set"}

\* the status a returned value carries to the caller
Carries(r, st) ==
  CASE r.tag = "Status" -> r.val = st
    [] r.tag = "Some" -> r.status = st
    [] r.tag = "Value" -> r.kind = Value_from(st)
    [] OTHER -> FALSE

\* C13: every status a native function returned during a wrapper call has
\* reached the caller in the returned value, and no native function was
\* called twice in the call
NativeStatusForwarded ==
  ~crashed =>
    \A i \in 1..Len(calls) :
      /\ \A j \in 1..Len(calls) : calls[j].fn = calls[i].fn => j = i
      /\ calls[i].fn \notin (AllocFns \cup FreeFns \cup ValueFns) => Carries(ret, calls[i].res)

\* C17: a get or a set with an index out of range makes the one native
\* call with the index as given, which invokes the error handler; no
\* status is returned and no element changes; where the handler returns,
\* get yields zero, and under the aborting handler the process stops
OutOfRangeForwarded ==
  [][(/\ call'.op \in {"get", "set"}
      /\ ~ValidIndex(heap[handles[call'.self].ptr], call'.args))
     => /\ Len(calls') = 1
        /\ calls'[1].fn \in ValueFns
        /\ calls'[1].args[1] = handles[call'.self].ptr
        /\ calls'[1].args[2] = call'.args[1]
        /\ calls'[1].err
        /\ heap' = heap
        /\ crashed' <=> (handler = "abort")
        /\ ~crashed' => ret' = (IF call'.op = "get" THEN Elem(Zero) ELSE Unit)]_vars

\* C17 witness: with a handler that returns, an out-of-range set was
\* followed by an out-of-range get on the same container, which yielded zero
OutOfRangeForwardedWitness ==
  /\ handler = "off" /\ ~crashed
  /\ prev.op = "set" /\ call.op = "get" /\ prev.self = call.self
  /\ ~ValidIndex(heap[handles[call.self].ptr], prev.args)
  /\ ~ValidIndex(heap[handles[call.self].ptr], call.args)
  /\ ret = Elem(Zero)

\* every operation that writes to a container or hands one out, together
\* with the eigen invocations; the containers start in every shape of the
\* element scenarios, with one filling per shape
InitDims ==
  \/ /\ InitElem
     /\ \A p \in DOMAIN heap : Live(heap, p) => heap[p].data = Pattern(prec, Len(heap[p].data), 0)
  \/ InitEigen

NextDims ==
  \/ ElemSet
  \/ ElemAdd
  \/ ElemSub
  \/ ElemMul
  \/ ElemDiv
  \/ ElemClone
  \/ BulkSetAll
  \/ BulkSetZero
  \/ BulkSetBasis
  \/ BulkSetIdentity
  \/ BulkCopyFrom
  \/ BulkCopyTo
  \/ BulkSwap
  \/ BulkReverse
  \/ BulkTranspose
  \/ BulkSetRow
  \/ BulkSetCol
  \/ BulkGetRow
  \/ BulkGetCol
  \/ BulkTransposeMemcpy
  \/ BulkLen
  \/ EigenInvoke
  \/ EigenDrop

SpecDims == InitDims /\ [][NextDims]_vars

\* C14: no step changes the length, the row count or the column count of
\* a vector or matrix that is live before and after it, and len returns
\* the length the vector was constructed with
DimensionsImmutable ==
  [][/\ \A p \in DOMAIN heap :
         (Live(heap, p) /\ Live(heap', p)) =>
            /\ heap'[p].size1 = heap[p].size1
            /\ heap'[p].size2 = heap[p].size2
            /\ Len(heap'[p].data) = Len(heap[p].data)
     /\ \A s \in DOMAIN handles :
         (handles[s] # NoHandle /\ handles'[s] # NoHandle) =>
            /\ handles'[s] = handles[s]
            /\ (handles[s].kind = "vec" =>
                 Vector_len(heap', handles'[s]) = Vector_len(heap, handles[s]))
     /\ (call'.op = "len" /\ ~crashed') =>
          ret' = Tuple(<<heap[handles[call'.self].ptr].size1>>)]_vars

\* C14 witness: a non-square matrix has been through a failed in-place
\* transposition and a second operation and has the row and column counts
\* it started with
DimensionsImmutableWitness ==
  /\ prev.op = "transpose" /\ call.op \in {"set_all", "swap", "copy_to"}
  /\ ~crashed /\ nops = 2
  /\ heap[handles[prev.self].ptr].size1 = 1
  /\ heap[handles[prev.self].ptr].size2 = 2
  /\ Len(heap[handles[prev.self].ptr].data) = 2

\* C18: a reduction query, equal included, changes no element and no
\* dimension of any container, allocates nothing and frees nothing
QueriesReadOnly ==
  [][call'.op \in (Queries \cup {"equal"}) =>
       /\ heap' = heap
       /\ handles' = handles
       /\ freeCount' = freeCount
       /\ Len(calls') = 1
       /\ calls'[1].fn \notin (AllocFns \cup FreeFns)]_vars

\* C18 witness: an ordering query was followed by equal on two containers
\* with the same elements, which answered true
QueriesReadOnlyWitness ==
  /\ prev.op = "minmax_index" /\ call.op = "equal" /\ ~crashed
  /\ ret = Bool(TRUE)
  /\ heap[handles[call.self].ptr].data = heap[handles[call.other].ptr].data
  /\ Len(heap[handles[call.self].ptr].data) = 4

\* C19: get_row(y) and get_col(x) leave the matrix as it is; if the vector
\* allocation fails they return None without calling the native copy;
\* otherwise, for an index in range, they return with a success status a
\* vector that was not live before, of the precision of the matrix, of
\* length n2 holding row y, respectively of length n1 holding column x
RowColumnExtracted ==
  [][call'.op \in {"get_row", "get_col"} =>
       LET mp == handles[call'.self].ptr
           m  == heap[mp]
           i  == call'.args[1]
           row == call'.op = "get_row"
       IN  /\ heap'[mp] = m
           /\ calls'[1].fn = "gsl_vector_alloc"
           /\ calls'[1].args = <<IF row THEN m.size2 ELSE m.size1>>
           /\ calls'[1].res = NULL => (ret' = None /\ Len(calls') = 1 /\ heap' = heap)
           /\ (calls'[1].res # NULL /\ i < (IF row THEN m.size1 ELSE m.size2)) =>
                /\ ~crashed'
                /\ Len(calls') = 2
                /\ ret'.tag = "Some" /\ ret'.status = GSL_SUCCESS
                /\ ret'.hd = Handle("vec", handles[call'.self].elem, calls'[1].res)
                /\ ~Live(heap, ret'.hd.ptr) /\ Live(heap', ret'.hd.ptr)
                /\ LET v == heap'[ret'.hd.ptr]
                   IN  /\ v.kind = "vec" /\ v.elem = m.elem
                       /\ v.size1 = (IF row THEN m.size2 ELSE m.size1)
                       /\ Len(v.data) = v.size1
                       /\ \A k \in 0..(v.size1 - 1) :
                            v.data[k + 1] = m.data[IF row THEN Pos(m, i, k) ELSE Pos(m, k, i)]]_vars

\* C19 witness: get_col(1) of a 2 x 2 matrix whose columns differ has
\* returned a 2-element vector holding the second column
RowColumnExtractedWitness ==
  /\ call.op = "get_col" /\ call.args = <<1>> /\ ~crashed
  /\ ret.tag = "Some" /\ ret.status = GSL_SUCCESS
  /\ LET m == heap[handles[call.self].ptr]
     IN  /\ m.size1 = 2 /\ m.size2 = 2
         /\ m.data[1] # m.data[2]
         /\ heap[ret.hd.ptr].data = <<m.data[2], m.data[4]>>

\* C20: whenever its allocation succeeds, transpose_memcpy of a matrix m
\* with n1 rows and n2 columns returns, with a success status, a matrix t
\* with n2 rows and n1 columns such that t(j, i) = m(i, j)
TransposeMemcpyAllShapes ==
  (call.op = "transpose_memcpy" /\ calls[1].res # NULL) =>
    /\ ~crashed
    /\ ret.tag = "Some" /\ ret.status = GSL_SUCCESS
    /\ LET m == heap[handles[call.self].ptr]
           t == heap[ret.hd.ptr]
       IN  /\ t.size1 = m.size2 /\ t.size2 = m.size1
           /\ \A i \in 0..(m.size1 - 1), j \in 0..(m.size2 - 1) :
                t.data[Pos(t, j, i)] = m.data[Pos(m, i, j)]

\* -------------------------------------------------------- borrow scenarios
\* the borrow of self that a method's signature takes: every method of the
\* container types takes &self, the eigen workspace operations &mut self
SelfBorrow(op) == IF op = "invoke" THEN "mut" ELSE "shared"

\* the borrow checker admits a call whose self and other operand name the
\* same variable only if both borrows are shared
Admits(op, s, t) == s # t \/ SelfBorrow(op) = "shared"

\* a.add(&a), a.sub(&a), a.mul(&a)
AliasedArith ==
  \E s \in VecSlots \cup MatSlots, o \in {"add", "sub", "mul"} :
    /\ Running /\ Counted
    /\ Admits(o, s, s)
    /\ Finish(o, s, s, <<>>, Elementwise(heap, handles[s].kind, o, handles[s], handles[s]), 0, {})

\* a.copy_from(&a), a.swap(&a)
AliasedCopy ==
  \E s \in VecSlots \cup MatSlots, o \in {"copy_from", "swap"} :
    /\ Running /\ Counted
    /\ Admits(o, s, s)
    /\ Finish(o, s, s, <<>>,
              IF o = "swap" THEN Container_swap(heap, handles[s], handles[s])
              ELSE IF handles[s].kind = "vec" THEN Vector_copy_from(heap, handles[s], handles[s])
              ELSE Matrix_copy_from(heap, handles[s], handles[s]), 0, {})

NextBorrow ==
  \/ AliasedArith
  \/ AliasedCopy
  \/ ElemAdd

SpecBorrow == InitElem /\ [][NextBorrow]_vars

\* C21: a container is never modified by an operation while a shared
\* borrow of the same container, its other operand, is live
MutatorsBorrowExclusively ==
  (call.op \in {"add", "sub", "mul", "div", "copy_from", "swap"} /\ ~crashed) =>
    call.other # call.self

\* C22: when a generalized invocation that was handed the matrix A by
\* value has returned, with whatever status, the caller's variable holds
\* no handle, no handle owns A's allocation, and the allocation was
\* released exactly once, by the last native call of the invocation; no
\* allocation is ever released twice
OwnershipTransferred ==
  /\ \A p \in DOMAIN freeCount : freeCount[p] <= 1
  /\ (call.op = "gen_invoke" /\ ~crashed) =>
       LET a == calls[1].args[1]
       IN  /\ handles[call.other] = NoHandle
           /\ Owners(a) = {}
           /\ heap[a].st = "freed"
           /\ freeCount[a] = 1
           /\ Len(calls) = 2
           /\ calls[2] = NCall("gsl_matrix_free", <<a>>, 0, FALSE)

\* C22 witness: genhermv has returned an error status and A's allocation
\* has been released once
OwnershipTransferredWitness ==
  /\ call.op = "gen_invoke" /\ ~crashed
  /\ handles[call.self].elem = "genhermv"
  /\ ret = Typed("MaxIteration")
  /\ freeCount[1] = 1 /\ heap[1].st = "freed" /\ handles[1] = NoHandle

\* ------------------------------------------------- construction scenarios
\* new, followed by reads of the container it returned
FreshVector ==
  \E size \in Sizes, tmp \in AllocOutcomes(heap) :
    /\ Running /\ Counted /\ DestSlot # 0
    /\ Finish("new", 0, 0, <<size>>, Vector_new(heap, prec, size, tmp), DestSlot, {})

FreshMatrix ==
  \E n1 \in Sizes, n2 \in Sizes, tmp \in AllocOutcomes(heap) :
    /\ Running /\ Counted /\ DestSlot # 0
    /\ Finish("new", 0, 0, <<n1, n2>>, Matrix_new(heap, prec, n1, n2, tmp), DestSlot, {})

NextFresh ==
  \/ FreshVector
  \/ FreshMatrix
  \/ ElemGet
  \/ BulkQuery

SpecFresh == Init /\ [][NextFresh]_vars

\* C23: directly after a successful new, every get at a valid index of
\* the new container returns zero and is_null answers true
NewIsZero ==
  [][(/\ call.op = "new" /\ ret.tag = "Some"
      /\ call'.self \in DOMAIN handles /\ handles[call'.self] = ret.hd)
     => /\ (call'.op = "get" /\ ValidIndex(heap[ret.hd.ptr], call'.args)) => ret' = Elem(Zero)
        /\ call'.op = "is_null" => ret' = Bool(TRUE)]_vars

\* C23 witness: the last element of a new 2 x 2 matrix has been read as zero
NewIsZeroWitness ==
  /\ prev.op = "new" /\ prev.args = <<2, 2>>
  /\ call.op = "get" /\ call.args = <<1, 1>> /\ ~crashed
  /\ heap[handles[call.self].ptr].kind = "mat"
  /\ ret = Elem(Zero)

\* the heap with every strict-upper-triangle cell of matrix a replaced by u
UpperReplaced(H, a, u) ==
  [H EXCEPT ![a].data = [k \in 1..Len(H[a].data) |->
                           IF LowerOrDiag(H[a], k) THEN H[a].data[k] ELSE u]]

\* C24: symm and symmv leave the strict upper triangle of A as it was, and
\* the same invocation on a matrix that agrees with A on the diagonal and
\* the lower triangle but holds other values in the strict upper triangle
\* reports the same native status, returns the same value and stores the
\* same eigenvalues and eigenvectors
UpperTriangleNotReferenced ==
  [][(call'.op = "invoke" /\ handles[call'.self].elem \in {"symm", "symmv"})
       => LET w == handles[call'.self]
              A == handles[1]
              eval == handles[2]
              evec == IF w.elem = "symmv" THEN handles[3] ELSE NoHandle
              o == heap[A.ptr]
          IN  /\ \A k \in 1..Len(o.data) :
                   ~LowerOrDiag(o, k) => heap'[A.ptr].data[k] = o.data[k]
              /\ \A u \in ElemVals(A.elem) :
                   LET r2 == Workspace_invoke(UpperReplaced(heap, A.ptr, u),
                                              w, A, eval, evec, call'.args[1])
                   IN  /\ r2.calls[1].res = calls'[1].res
                       /\ ~crashed' =>
                            /\ r2.ret = ret'
                            /\ r2.h[eval.ptr] = heap'[eval.ptr]
                            /\ evec # NoHandle => r2.h[evec.ptr] = heap'[evec.ptr]]_vars

UpperTriangleNotReferencedWitness ==
  /\ call.op = "invoke" /\ handles[call.self].elem = "symmv" /\ ~crashed
  /\ ret = Typed("Success")
  /\ heap[1].size1 = 2
  /\ heap[1].data[3] = Unknown
  /\ heap[1].data[2] \in ElemVals("F64") /\ heap[1].data[2] # Zero
  /\ heap[3].data[1] = heap[2].data[1] /\ heap[2].data[1][1] = -2

\* b.copy_from(a) on heap H
CopyFrom(H, b, a) ==
  IF b.kind = "vec" THEN Vector_copy_from(H, b, a) ELSE Matrix_copy_from(H, b, a)

\* C25: a.copy_to(b) makes the native call, returns the status and leaves
\* the state that b.copy_from(a) would; on containers of equal dimensions
\* every element of b then equals the element of a, and a is as before;
\* copy_from changes no object but self, copy_to none but other
CopyDual ==
  [][/\ call'.op = "copy_to" =>
          LET a == handles[call'.self]
              b == handles[call'.other]
              r == CopyFrom(heap, b, a)
          IN  /\ calls' = r.calls
              /\ ~crashed' => (heap' = r.h /\ ret' = r.ret)
              /\ \A p \in DOMAIN heap : p # b.ptr => heap'[p] = heap[p]
              /\ SameDims(heap, a, b) =>
                   /\ ~crashed' /\ ret' = Status(GSL_SUCCESS)
                   /\ heap'[b.ptr].data = heap[a.ptr].data
     /\ call'.op = "copy_from" =>
          LET b == handles[call'.self]
              a == handles[call'.other]
          IN  /\ \A p \in DOMAIN heap : p # b.ptr => heap'[p] = heap[p]
              /\ SameDims(heap, a, b) =>
                   /\ ~crashed' /\ ret' = Status(GSL_SUCCESS)
                   /\ heap'[b.ptr].data = heap[a.ptr].data]_vars

CopyDualWitness ==
  /\ call.op = "copy_to" /\ ~crashed /\ ret = Status(GSL_SUCCESS)
  /\ heap[handles[call.self].ptr].kind = "mat"
  /\ heap[handles[call.self].ptr].size1 = 2
  /\ heap[handles[call.other].ptr].data = heap[handles[call.self].ptr].data
  /\ \E k \in 1..Len(heap[handles[call.self].ptr].data) :
       heap[handles[call.self].ptr].data[k] # heap[handles[call.self].ptr].data[1]

\* ---------------------------------------------------------- slice scenarios
\* Scenarios for from_slice on slices of up to MaxDim + 1 elements, followed
\* by reads of the vector it returned.
LongSlices(e) == UNION {[1..n -> ElemVals(e)] : n \in Idx}

SliceVector ==
  \E slice \in LongSlices(prec), tmp \in AllocOutcomes(heap) :
    /\ Running /\ Counted /\ DestSlot # 0
    /\ Finish("from_slice", 0, 0, <<slice>>, Vector_from_slice(heap, prec, slice, tmp),
              DestSlot, {})

NextSlice ==
  \/ SliceVector
  \/ ElemGet
  \/ BulkLen

SpecSlice == Init /\ [][NextSlice]_vars

\* C26: from_slice makes one allocator call for len(s) elements and returns
\* None exactly when that call returned null; otherwise it makes one set
\* call per element of s, for the indices 0, 1, ... len(s) - 1 in this
\* order and with the element of s at that index, none of them out of
\* range, and returns a vector whose len is len(s) and whose get at every
\* i < len(s) is s[i]
FromSliceExact ==
  [][/\ call'.op = "from_slice" =>
          LET s == call'.args[1]
          IN  /\ calls'[1].fn = "gsl_vector_alloc" /\ calls'[1].args = <<Len(s)>>
              /\ (ret' = None) <=> (calls'[1].res = NULL)
              /\ ret' # None =>
                   /\ ~crashed' /\ ret'.tag = "Some"
                   /\ ret'.hd.ptr = calls'[1].res
                   /\ heap'[ret'.hd.ptr].size1 = Len(s)
                   /\ Len(calls') = 1 + Len(s)
                   /\ \A i \in 1..Len(s) :
                        /\ calls'[i + 1] =
                             NCall("gsl_vector_set", <<ret'.hd.ptr, i - 1, s[i]>>, 0, FALSE)
                        /\ heap'[ret'.hd.ptr].data[i] = s[i]
     /\ (/\ call.op = "from_slice" /\ ret # None
         /\ call'.self \in DOMAIN handles /\ handles[call'.self] = ret.hd)
        => /\ call'.op = "len" => ret' = Tuple(<<Len(call.args[1])>>)
           /\ (call'.op = "get" /\ call'.args[1] < Len(call.args[1]))
                => ret' = Elem(call.args[1][call'.args[1] + 1])]_vars

FromSliceExactWitness ==
  /\ prev.op = "from_slice" /\ Len(prev.args[1]) = 2
  /\ prev.args[1][1] # prev.args[1][2]
  /\ call.op = "get" /\ call.args = <<1>> /\ ~crashed
  /\ ret = Elem(prev.args[1][2])

\* ------------------------------------------------------- division scenarios
\* Scenarios for div_elements: two matrices, self of every element type and
\* the operand of the element type the signature of div_elements admits.
InitMixed ==
  \E a1 \in Sizes, a2 \in Sizes, b1 \in Sizes, b2 \in Sizes, sa \in Vals, sb \in Vals :
    /\ prec \in ElemTypes
    /\ handler \in {"abort", "off"}
    /\ heap = [p \in Ptr |->
         IF p = 1 THEN Obj("mat", prec, a1, a2, Pattern(prec, a1 * a2, sa))
         ELSE IF p = 2
           THEN Obj("mat", DivOperandType(prec), b1, b2,
                    Pattern(DivOperandType(prec), b1 * b2, sb))
         ELSE NoObj]
    /\ handles = [s \in Slots |->
         IF s = 1 THEN Handle("mat", prec, 1)
         ELSE IF s = 2 THEN Handle("mat", DivOperandType(prec), 2)
         ELSE NoHandle]
    /\ freeCount = [p \in Ptr |-> 0]
    /\ raw = NULL
    /\ call = NoCall
    /\ prev = NoCall
    /\ clonedFrom = [s \in Slots |-> 0]
    /\ ret = Unit
    /\ calls = <<>>
    /\ crashed = FALSE
    /\ ub = FALSE
    /\ nops = 0

MixedDiv ==
  \E junk \in ElemVals(prec) \cup {Unknown} :
    /\ Running /\ Counted
    /\ handles[1] # NoHandle /\ handles[2] # NoHandle
    /\ (handles[2].elem = handles[1].elem /\ SameDims(heap, handles[1], handles[2])) =>
         \A k \in 1..Len(heap[1].data) : ExactDiv(heap[1].data[k], heap[2].data[k])
    /\ Finish("div_elements", 1, 2, <<>>,
              Matrix_div_elements_typed(heap, handles[1], handles[2], junk), 0, {})

NextMixed ==
  \/ MixedDiv
  \/ ElemGet

SpecMixed == InitMixed /\ [][NextMixed]_vars

\* C27: div_elements of every matrix variant takes an operand of the
\* element type of self, hands the native function two matrices of that
\* element type, and on equal dimensions stores the quotients in self and
\* leaves other as it was
DivOperandsSameType ==
  [][call'.op = "div_elements" =>
       LET a == handles[call'.self]
           b == handles[call'.other]
       IN  /\ b.elem = a.elem
           /\ \A i \in 1..Len(calls') : \A j \in 1..Len(calls'[i].args) :
                heap[calls'[i].args[j]].elem = a.elem
           /\ ~ub'
           /\ heap'[b.ptr] = heap[b.ptr]
           /\ SameDims(heap, a, b) =>
                \A k \in 1..Len(heap[a.ptr].data) :
                  heap'[a.ptr].data[k] = DivE(heap[a.ptr].data[k], heap[b.ptr].data[k])]_vars

\* every element of object o has been written
Written(o) == \A k \in 1..Len(o.data) : o.data[k] # Uninit

\* self.get at position ix (one index for a vector, two for a matrix)
GetAt(H, self, ix) ==
  IF self.kind = "vec" THEN Vector_get(H, self, ix[1], Zero).ret
  ELSE Matrix_get(H, self, ix[1], ix[2], Zero).ret

\* the row-major rank of position ix in object o
RankOf(o, ix) == IF o.kind = "vec" THEN ix[1] + 1 ELSE ix[1] * o.size2 + ix[2] + 1

\* C28: on a container whose elements are all written, minmax_index returns
\* the position min_index returns followed by the position max_index
\* returns; get at these positions returns what min and max return, no
\* element is below the one or above the other, and no position before
\* them in row-major order holds the same value
IndexQueriesConsistent ==
  [][(call'.op = "minmax_index" /\ Written(heap[handles[call'.self].ptr]))
       => LET h == handles[call'.self]
              o == heap[h.ptr]
              imin == Container_min_index(heap, h, Zero).ret.val
              imax == Container_max_index(heap, h, Zero).ret.val
          IN  /\ ret' = Tuple(imin \o imax)
              /\ Len(imin) = (IF h.kind = "vec" THEN 1 ELSE 2)
              /\ ValidIndex(o, imin) /\ ValidIndex(o, imax)
              /\ GetAt(heap, h, imin) = Container_min(heap, h, Zero).ret
              /\ GetAt(heap, h, imax) = Container_max(heap, h, Zero).ret
              /\ Container_minmax(heap, h, Zero).ret =
                   Tuple(<<GetAt(heap, h, imin).val[1], GetAt(heap, h, imax).val[1]>>)
              /\ \A k \in 1..Len(o.data) :
                   /\ o.data[RankOf(o, imin)][1] <= o.data[k][1]
                   /\ o.data[k][1] <= o.data[RankOf(o, imax)][1]
                   /\ o.data[k] = o.data[RankOf(o, imin)] => k >= RankOf(o, imin)
                   /\ o.data[k] = o.data[RankOf(o, imax)] => k >= RankOf(o, imax)]_vars

IndexQueriesConsistentWitness ==
  /\ call.op = "minmax_index" /\ ~crashed
  /\ heap[handles[call.self].ptr].kind = "mat"
  /\ heap[handles[call.self].ptr].size1 = 2 /\ heap[handles[call.self].ptr].size2 = 2
  /\ Written(heap[handles[call.self].ptr])
  /\ ret = Tuple(<<0, 1, 0, 0>>)

\* C29: get_row, get_col and transpose_memcpy return None exactly when the
\* allocation of the result returned null; otherwise, when the native copy
\* returns, they return Some of a handle on the allocated object and the
\* status of the copy, whatever it is; that handle is the one owner of the
\* object, whose drop releases it; and after a copy that reported a
\* failure no element of the object has been written
ResultAlwaysOwned ==
  [][call'.op \in {"get_row", "get_col", "transpose_memcpy"} =>
       /\ calls'[1].fn \in {"gsl_vector_alloc", "gsl_matrix_alloc"}
       /\ (ret' = None) <=> (calls'[1].res = NULL)
       /\ crashed' => (handler = "abort" /\ calls'[Len(calls')].err)
       /\ (calls'[1].res # NULL /\ ~crashed') =>
            LET p == calls'[1].res
            IN  /\ Len(calls') = 2
                /\ ret'.tag = "Some" /\ ret'.status = calls'[2].res
                /\ ret'.hd.ptr = p
                /\ ~Live(heap, p) /\ Live(heap', p) /\ freeCount'[p] = 0
                /\ Cardinality({s \in DOMAIN handles' :
                                  handles'[s] # NoHandle /\ handles'[s].ptr = p}) = 1
                /\ \E s \in DOMAIN handles' : handles'[s] = ret'.hd
                /\ LET d == Container_drop(heap', ret'.hd)
                   IN  /\ Len(d.calls) = 1 /\ d.calls[1].fn \in FreeFns
                       /\ d.calls[1].args = <<p>>
                       /\ ~Live(d.h, p)
                /\ ret'.status # GSL_SUCCESS =>
                     \A k \in 1..Len(heap'[p].data) : heap'[p].data[k] = Uninit]_vars

ResultAlwaysOwnedWitness ==
  /\ call.op = "get_col" /\ ~crashed
  /\ call.args[1] >= heap[handles[call.self].ptr].size2
  /\ ret.tag = "Some" /\ ret.status # GSL_SUCCESS
  /\ heap[ret.hd.ptr].size1 = 2
  /\ heap[ret.hd.ptr].data = <<Uninit, Uninit>>
  /\ \E s \in DOMAIN handles : handles[s] = ret.hd

\* C30: no handle in scope holds a null pointer, so len returns the native
\* size and clone reaches its allocator call; when that call returned an
\* object, the copy inside clone gets two objects of equal dimensions,
\* reports success without invoking the error handler, and clone returns
\* the new handle
HandlesNeverNull ==
  /\ \A s \in LiveSlots :
       /\ handles[s].ptr # NULL
       /\ handles[s].kind = "vec" =>
            Vector_len(heap, handles[s]) = heap[handles[s].ptr].size1
  /\ call.op = "clone" =>
       /\ ~crashed
       /\ Len(calls) >= 1 /\ calls[1].fn \in AllocFns
       /\ (ret = None) <=> (calls[1].res = NULL)
       /\ calls[1].res # NULL =>
            /\ Len(calls) = 2
            /\ calls[2].fn \in {"gsl_vector_memcpy", "gsl_matrix_memcpy"}
            /\ calls[2].args = <<calls[1].res, handles[call.self].ptr>>
            /\ heap[calls[2].args[1]].size1 = heap[calls[2].args[2]].size1
            /\ heap[calls[2].args[1]].size2 = heap[calls[2].args[2]].size2
            /\ calls[2].res = GSL_SUCCESS /\ ~calls[2].err
            /\ ret.tag = "Some" /\ ret.hd.ptr = calls[1].res

HandlesNeverNullWitness ==
  /\ call.op = "clone" /\ ~crashed /\ ret.tag = "Some"
  /\ handler = "abort"
  /\ Len(calls) = 2 /\ calls[2].fn = "gsl_matrix_memcpy" /\ calls[2].res = GSL_SUCCESS
  /\ heap[ret.hd.ptr].size1 = 1 /\ heap[ret.hd.ptr].size2 = 1
  /\ handles[call.self].ptr # NULL /\ handles[call.self].ptr # ret.hd.ptr
====
